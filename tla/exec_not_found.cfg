SPECIFICATION NoKillSpec
CONSTANTS
  PROC_SIZE = 4
  MaxPid = 4
  Statuses = {0}
INVARIANT WaitedChildCanReport
