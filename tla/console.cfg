SPECIFICATION ConsoleSpec
CONSTANTS
  Chars = {"a"}
  Plain = "a"
  Keys = {"a", "enter", "backspace", "tab", "star", "release", "shift", "ctrl"}
  LIMIT = 3
  STDIN_SIZE = 5
  WORD = 2
  COLS = 2
  HALF = 1
  TICK = 1
  SECOND = 2
  MaxTime = 6
  Naps = {2}
  Output = {"newline", "nul", "negative"}
  Message <- LimitMessage
  INT = 2
  Residue <- StackBytes
INVARIANTS
  TypeOK
  LineTerminated
  CursorSound
  ClockRowFree
  EchoMatchesLine
PROPERTIES
  ImplementsLineEditor
  ReadReturns
  SleepLength
  SleepEnds
