SPECIFICATION Spec
CONSTANTS
  Callers = {cli}
  Commands = {"restart"}
  MayRefuse = FALSE
  MaxPolls = 1
  MaxCommands = 1
CHECK_DEADLOCK FALSE
INVARIANT RestartEndsRunning
