------------------------------- MODULE Launch -------------------------------
(***************************************************************************)
(* What a run of the program does with its command line: the commands and  *)
(* who must be an administrator for them (internal/cli/commands.go), the   *)
(* mode of a run (internal/app/runmode.go), and which of the ways through  *)
(* RunCommand it takes (internal/app/command.go).                          *)
(*                                                                         *)
(* A command line is a sequence of words, the program's path first.        *)
(***************************************************************************)
EXTENDS Naturals, Sequences

Command(min, elevation, window) ==
    [min |-> min, elevation |-> elevation, window |-> window]

Commands ==
    [install |-> Command(0, "always", "short"), remove |-> Command(0, "always", "short"),
     edit |-> Command(1, "denied", "any"), gui |-> Command(0, "always", "any"),
     get |-> Command(2, "denied", "none"), set |-> Command(3, "denied", "none"),
     reset |-> Command(2, "denied", "none"), unset |-> Command(2, "denied", "none"),
     dump |-> Command(1, "denied", "none"), start |-> Command(1, "never", "none"),
     stop |-> Command(1, "never", "none"), restart |-> Command(1, "never", "none"),
     pause |-> Command(1, "never", "none"), continue |-> Command(1, "never", "none"),
     status |-> Command(1, "never", "none"), statuscode |-> Command(1, "never", "none"),
     rotate |-> Command(1, "never", "none"), list |-> Command(0, "never", "none"),
     processes |-> Command(1, "never", "none")]

\* The flags with one slash or up to two dashes; "version" and "help" stand for
\* themselves, a bare letter does not.
VersionFlags == {"version", "-version", "--version", "/version", "-v", "--v", "/v"}

HelpFlags == {"help", "-help", "--help", "/help", "-h", "--h", "/h", "-?", "--?", "/?"}

\* "service" is the answer of the control manager to a run without a console:
\* "served", "not a service" or "failed".
ResolveMode(argv, console, service) ==
    IF Len(argv) > 1 /\ argv[2] \in VersionFlags THEN "version"
    ELSE IF Len(argv) > 1 /\ argv[2] \in HelpFlags THEN "usage"
    ELSE IF Len(argv) > 1 /\ argv[2] \in DOMAIN Commands THEN "manager"
    ELSE IF ~console /\ service = "served" THEN "service"
    ELSE IF ~console /\ service = "failed" THEN "dispatch error"
    ELSE IF Len(argv) > 1 THEN "usage"
    ELSE "manager"

\* A run without a command opens the management window.
CommandOf(argv) == IF Len(argv) > 1 THEN argv[2] ELSE "gui"

Arguments(argv) == SubSeq(argv, 3, Len(argv))

OpensWindow(argv) ==
    LET window == Commands[CommandOf(argv)].window
    IN window = "any" \/ (window = "short" /\ Len(Arguments(argv)) < 2)

TooShort(argv) ==
    ~OpensWindow(argv) /\ Len(Arguments(argv)) < Commands[CommandOf(argv)].min

\* Before a command runs.
NeedsElevation(argv, admin) == Commands[CommandOf(argv)].elevation = "always" /\ ~admin

\* A mutant: an administrator's run that was denied asks again.
ShouldElevateAgain(argv, code, admin) ==
    LET elevation == Commands[CommandOf(argv)].elevation
    IN (elevation = "always" /\ ~admin) \/ (elevation = "denied" /\ code = 3 /\ Len(argv) = 3)

\* After a command has returned its exit code.
ShouldElevate(argv, code, admin) ==
    LET elevation == Commands[CommandOf(argv)].elevation
    IN ~admin /\ (elevation = "always" \/ (elevation = "denied" /\ code = 3 /\ Len(argv) = 3))

\* The exit code of a run that does not get to a command.
CodeOf(mode) == CASE mode \in {"version", "service"} -> 0
                  [] mode = "usage" -> 1
                  [] mode = "dispatch error" -> 100

=============================================================================
