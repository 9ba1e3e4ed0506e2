SPECIFICATION FairSpec
CONSTANTS
  Callers = {cli, dashboard}
  Commands = {"start", "stop", "restart", "pause", "continue", "rotate", "install", "form", "remove"}
  MayRefuse = TRUE
  MaxPolls = 1
  MaxCommands = 3
CHECK_DEADLOCK FALSE
INVARIANTS
  StoppedIsOver
  InstallIsAllOrNothing
PROPERTIES
  NewInstance
  CommandEnds
  RemovalCompletes
