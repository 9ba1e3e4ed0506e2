--------------------------- MODULE MCAdministration ---------------------------
(***************************************************************************)
(* Stores, command lines and gestures for TLC: each scenario pairs two     *)
(* runs whose changes meet, on a store whose values the dialogs can show   *)
(* or cannot.                                                              *)
(***************************************************************************)
EXTENDS Administration

MCHookNames == <<"Start/Pre", "Exit/Post">>

MCNumberOf == ("0" :> 0) @@ ("1" :> 1) @@ ("2" :> 2) @@ ("3" :> 3) @@ ("500" :> 500)
    @@ ("16" :> 16) @@ ("1500" :> 1500)

MCEntryOf ==
    ("A=1" :> [name |-> "A", value |-> "1"]) @@ ("B=%A%" :> [name |-> "B", value |-> "%A%"])

MCRefOf == ("%A%" :> "A")

MCInherited == << [name |-> "PATH", value |-> "system"] >>

MCDirectoryOf == ("app.exe" :> "dir") @@ ("new.exe" :> "other") @@ ("" :> "")

MCTrimOf == (" A=1" :> "A=1")

Setting(name, data) == Key(name) :> Value(name, data)

Plain == InstalledStore("svc", "app.exe", "dir", "")

With(values) == [Plain EXCEPT !.registry = values @@ @]

\* Everything shows.
Ordinary ==
    With(Setting("AppThrottle", 500) @@ Setting("AppEnvironmentExtra", <<"A=1", "B=%A%">>)
      @@ (<<"AppExit", "5">> :> Value("AppExit", "Exit"))
      @@ (<<"AppEvents", "Exit/Post">> :> [kind |-> "expand", data |-> "run"]))

\* Both environments, a file to replace, another method to stop with.
Mixed ==
    With(Setting("AppEnvironment", <<"A=1">>) @@ Setting("AppEnvironmentExtra", <<"B=%A%">>)
      @@ Setting("AppStdout", "%A%") @@ Setting("AppStdoutCreationDisposition", 1)
      @@ Setting("AppStopMethodSkip", 16) @@ Setting("AppRotateFiles", 2)
      @@ (<<"AppExit", "Default">> :> Value("AppExit", "Exit")))

\* As other tools may leave it.
Foreign ==
    [With(Setting("AppPriority", "OTHER") @@ (Key("AppParameters") :> Text("x"))
       @@ (<<"AppEvents", "Exit/Post">> :> [kind |-> "dword", data |-> "1"]))
       EXCEPT !.scm.type = 32, !.scm.start = 3,
              !.scm.DependOnService = <<"a">>, !.scm.DependOnGroup = <<"g">>]

\* Exit actions of kinds that only other tools write.
ForeignActions ==
    With((<<"AppExit", "5">> :> [kind |-> "dword", data |-> "1"])
      @@ (<<"AppExit", "Default">> :> [kind |-> "expand", data |-> "Exit"]))

\* A code restarts the program, the others end the service.
OwnRestart ==
    With((<<"AppExit", "5">> :> Value("AppExit", "Restart"))
      @@ (<<"AppExit", "Default">> :> Value("AppExit", "Exit")))

Unmanaged == [Plain EXCEPT !.registry = <<>>, !.scm.type = 272, !.scm.start = 1]

NotInstalled == [Plain EXCEPT !.registry = <<>>, !.installed = FALSE]

Delayed == [Plain EXCEPT !.scm.delayed = TRUE, !.scm.ObjectName = "user"]

Idle == <<"ansm", "help">>

Two(st, first, second, admin, user) ==
    [store |-> st, argv |-> [p \in Runs |-> IF p = "p" THEN first ELSE second],
     admin |-> admin, user |-> user]

Edit == <<"ansm", "edit", "svc">>

Login == {<<"ObjectName", "user">>, <<"Password", "secret">>, <<"Confirm", "secret">>}

\* Nothing but what ansm's own commands have set.
MCEditor == {Two(Mixed, Edit, Idle, TRUE, {})}

MCScenarios ==
    {Two(Ordinary, Edit, <<"ansm", "set", "svc", "AppThrottle", "1500">>, TRUE,
         {<<"AppThrottle", 1500>>, <<"Lines", <<" A=1">> >>, <<"Exit/Post", "">>}),
     Two(Ordinary, Edit, Edit, TRUE, {<<"AppThrottle", 3>>}),
     Two(Ordinary, <<"ansm">>, <<"ansm", "remove", "svc", "confirm">>, FALSE, {}),
     Two(NotInstalled, <<"ansm">>, Idle, TRUE, {<<"Name", "svc">>, <<"Application", "new.exe">>}),
     Two(Mixed, Edit, <<"ansm", "set", "svc", "AppExit", "5", "Restart">>, TRUE, {}),
     Two(Foreign, Edit, <<"ansm", "set", "svc", "DependOnGroup", "h">>, TRUE,
         {<<"Dependencies", [services |-> <<>>, groups |-> <<>>]>>}),
     Two(Foreign, <<"ansm", "set", "svc", "DependOnService", "b", "", "c">>,
         <<"ansm", "set", "svc", "DependOnGroup", "", "g">>, TRUE, {}),
     Two(Foreign, Edit, <<"ansm", "reset", "svc", "DependOnService">>, FALSE, {}),
     Two(ForeignActions, Edit, <<"ansm", "reset", "svc", "AppExit", "5">>, TRUE,
         {<<"AppExit", "Ignore">>}),
     Two(ForeignActions, <<"ansm", "set", "svc", "AppExit", "Default", "Exit">>,
         <<"ansm", "set", "svc", "AppExit", "5", "Ignore">>, TRUE, {}),
     Two(OwnRestart, Edit, <<"ansm", "reset", "svc", "AppExit", "Default">>, TRUE,
         {<<"AppExit", "Ignore">>}),
     Two(Unmanaged, Edit, <<"ansm", "set", "svc", "Start", "SERVICE_DELAYED_AUTO_START">>, TRUE,
         {<<"Start", "SERVICE_DELAYED_AUTO_START">>, <<"Description", "text">>}),
     Two([Plain EXCEPT !.scm.type = 272], Edit, Idle, TRUE, Login \cup {<<"Interactive", FALSE>>}),
     Two(Plain, Edit, Idle, TRUE, Login \cup {<<"Interactive", TRUE>>}),
     Two(NotInstalled, <<"ansm", "install", "svc">>, <<"ansm", "install", "svc", "new.exe">>, TRUE,
         {<<"Application", "new.exe">>, <<"Replace", TRUE>>, <<"Lines", <<"A=1">> >>}),
     Two(NotInstalled, <<"ansm", "install", "svc">>, <<"ansm", "remove", "svc", "confirm">>, TRUE,
         {<<"Application", "new.exe">>}),
     Two(Delayed, <<"ansm", "set", "svc", "Start", "SERVICE_AUTO_START">>, Idle, TRUE, {}),
     Two(NotInstalled, <<"ansm", "install">>, Edit, FALSE, {<<"Name", "svc">>}),
     Two(Delayed, <<"ansm", "set", "svc", "ObjectName", "LocalSystem">>,
         <<"ansm", "set", "svc", "Type", "SERVICE_INTERACTIVE_PROCESS">>, TRUE, {}),
     Two(Delayed, <<"ansm", "remove", "svc">>, <<"ansm", "set", "svc", "AppEnvironment", "">>, TRUE, {}),
     Two(Delayed, <<"ansm", "reset", "svc", "Application">>, <<"ansm", "reset", "svc", "Start">>, TRUE, {}),
     Two(Ordinary, <<"ansm", "dump", "svc">>, <<"ansm", "get", "svc", "AppExit", "5">>, FALSE, {}),
     Two(Ordinary, <<"ansm", "list", "all">>, <<"ansm", "status", "svc">>, FALSE, {}),
     Two(Ordinary, <<"ansm", "set", "svc", "AppEvents", "Start/Pre", "run">>, Idle, FALSE, {}),
     Two(Ordinary, <<"ansm", "edit">>, <<"ansm", "statuscode">>, TRUE, {})}

=============================================================================
