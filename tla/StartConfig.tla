------------------------------ MODULE StartConfig ------------------------------
(***************************************************************************)
(* What the supervisor reads of a service's settings when it starts the    *)
(* program (internal/supervisor/config.go): LoadConfig with its defaults,  *)
(* its error codes and the environment it builds (internal/envblock), and  *)
(* the action for an exit code.                                            *)
(*                                                                         *)
(* An environment is a sequence of entries.  A text is expanded as a whole:*)
(* it is a reference to one variable or has none.                          *)
(***************************************************************************)
EXTENDS Settings

CONSTANTS EntryOf,       \* the entry that a line NAME=VALUE stands for
          RefOf,         \* the variable that a text %NAME% refers to
          Inherited,     \* the environment of the service process
          DirectoryOf,   \* the directory part of a path, NoText if it has none
          Directories,   \* the directories that exist
          Masks          \* the texts that name processors

ASSUME TextsAssumption == NoText \notin DOMAIN RefOf

Actions == {"Restart", "Ignore", "Exit", "Suicide"}

Priorities == <<"REALTIME_PRIORITY_CLASS", "HIGH_PRIORITY_CLASS",
  "ABOVE_NORMAL_PRIORITY_CLASS", "NORMAL_PRIORITY_CLASS",
  "BELOW_NORMAL_PRIORITY_CLASS", "IDLE_PRIORITY_CLASS">>

-----------------------------------------------------------------------------
(* Environment blocks.                                                     *)

ParseLines(lines) ==
    LET good == SelectSeq(lines, LAMBDA line : line \in DOMAIN EntryOf)
    IN [i \in DOMAIN good |-> EntryOf[good[i]]]

Places(entries, name) == {i \in DOMAIN entries : entries[i].name = name}

Upsert(entries, e) ==
    LET places == Places(entries, e.name)
    IN IF places = {} THEN Append(entries, e)
       ELSE [entries EXCEPT ![Min(places)].value = e.value]

ExpandPercent(entries, text) ==
    IF text \in DOMAIN RefOf /\ Places(entries, RefOf[text]) # {}
    THEN entries[Min(Places(entries, RefOf[text]))].value
    ELSE text

\* Each value is expanded with what the entries before it have made.
Apply(base, override) ==
    FoldLeft(LAMBDA out, e : Upsert(out, [e EXCEPT !.value = ExpandPercent(out, @)]),
             base, override)

-----------------------------------------------------------------------------
(* The snapshot of a start.                                                *)

\* A mutant: the kind is not compared.
ReadAnyKind(registry, name) == Stored(registry, Key(name))

\* A value of another kind than the catalog's counts as not found.
Read(registry, name) ==
    LET v == Stored(registry, Key(name))
    IN IF v.kind = KindOf(name) THEN v ELSE Absent

ReadNumber(registry, name, fallback) ==
    LET v == Read(registry, name) IN IF Found(v) THEN v.data ELSE fallback

\* The fallbacks that LoadConfig names itself; the others are the catalog's.
Fallback(name) ==
    CASE name \in {"AppThrottle", "AppStopMethodConsole", "AppStopMethodWindow",
                   "AppStopMethodThreads"} -> 1500
      [] name \in {"AppRestartDelay", "AppNoConsole", "AppStopMethodSkip"} -> 0
      [] name = "AppKillProcessTree" -> 1
      [] OTHER -> Numbers[name]

ReadEnvironment(registry, name) ==
    LET v == Read(registry, name)
    IN [found |-> Found(v), entries |-> IF Found(v) THEN ParseLines(v.data) ELSE <<>>]

Environment(registry) ==
    LET replacement == ReadEnvironment(registry, "AppEnvironment")
        extra == ReadEnvironment(registry, "AppEnvironmentExtra")
        base == IF replacement.found THEN Apply(<<>>, replacement.entries) ELSE Inherited
    IN Apply(base, extra.entries)

\* A text, expanded with the environment the program will have.
ReadString(registry, environment, name) ==
    LET v == Read(registry, name)
    IN IF Found(v) THEN ExpandPercent(environment, v.data) ELSE NoText

WorkingDirectory(registry, environment) ==
    LET directory == ReadString(registry, environment, "AppDirectory")
        application == ReadString(registry, environment, "Application")
    IN IF directory \in Directories \ {NoText} THEN directory ELSE DirectoryOf[application]

\* A stream that has no path takes no other field.
Stream(registry, environment, prefix) ==
    LET path == ReadString(registry, environment, prefix)
        Field(suffix) == ReadNumber(registry, prefix \o suffix, Numbers[prefix \o suffix])
    IN IF path = NoText THEN <<>>
       ELSE <<path, Field("ShareMode"), Field("CreationDisposition"),
              Field("FlagsAndAttributes"),
              prefix # "AppStdin" /\ Field("CopyAndTruncate") # 0>>

ParsePriority(text) ==
    IF text \in ToSet(Priorities) THEN text ELSE "NORMAL_PRIORITY_CLASS"

\* A start without an application fails.  A path without a directory leaves the
\* program in the system's.
LoadConfig(registry) ==
    LET environment == Environment(registry) IN
    [startable |-> ReadString(registry, environment, "Application") # NoText,
     application |-> ReadString(registry, environment, "Application"),
     parameters |-> ReadString(registry, environment, "AppParameters"),
     directory |-> WorkingDirectory(registry, environment),
     environment |-> environment,
     priority |-> LET v == Read(registry, "AppPriority")
                  IN ParsePriority(IF Found(v) THEN v.data ELSE "NORMAL_PRIORITY_CLASS"),
     affinity |-> LET v == Read(registry, "AppAffinity")
                  IN IF Found(v) /\ v.data \in Masks THEN v.data ELSE NoText,
     number |-> [name \in DOMAIN Numbers |-> ReadNumber(registry, name, Fallback(name))],
     streams |-> [prefix \in {"AppStdin", "AppStdout", "AppStderr"} |->
                   Stream(registry, environment, prefix)]]

\* The code's own action, or the one for every code, or a restart.
ParseAction(text) == IF text \in Actions THEN text ELSE "Restart"

ResolveExitAction(registry, code) ==
    LET own == Stored(registry, <<"AppExit", code>>)
        default == Stored(registry, <<"AppExit", "Default">>)
    IN CASE own.kind = "sz" -> ParseAction(own.data)
         [] own.kind # "sz" /\ default.kind = "sz" -> ParseAction(default.data)
         [] OTHER -> "Restart"

=============================================================================
