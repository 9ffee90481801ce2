SPECIFICATION ShellSpec
CONSTANTS
  PROC_SIZE = 3
  MaxPid = 15
  Statuses = {0}
  Lines <- BlankLines
  Scripts <- TestScripts
  OtherPaths = {"./Jedi.txt"}
INVARIANT InvalidLineReprompts
