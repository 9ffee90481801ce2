SPECIFICATION ShellSpec
CONSTANTS
  PROC_SIZE = 3
  MaxPid = 31
  Statuses = {0}
  Lines <- SessionLines
  Scripts <- TestScripts
  OtherPaths = {"./Jedi.txt"}
INVARIANTS
  SessionNeverStops
  CommandsReclaimed
  WaitedChildCanReport
  LineRunsItsCommands
PROPERTY PromptReturns
