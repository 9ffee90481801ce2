SPECIFICATION Spec
CONSTANTS
  PROC_SIZE = 3
  MaxPid = 4
  Statuses = {0, 1}
INVARIANTS
  TypeOK
  PidsUnique
  ShellAlive
PROPERTY NoResurrection
