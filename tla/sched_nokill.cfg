SPECIFICATION FairNoKillSpec
CONSTANTS
  PROC_SIZE = 3
  MaxPid = 5
  Statuses = {0, 1}
INVARIANTS
  RunQueueSound
  RingNeverFull
  ReportsAreReapable
PROPERTIES
  ImplementsProcessLife
  NoProcessLost
  ReadyRuns
