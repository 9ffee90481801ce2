SPECIFICATION LoaderSpec
CONSTANTS
  Archive <- MCArchive
  Paths <- MCPaths
  HEADER = 2
  MAX_FAMILY = 4
  MAX_FD = 4
  Procs = {sh, p1, p2}
  shell = sh
  Counts = {2}
  MaxObjects = 2
  Headers <- MCHeaders
  ShellPath <- MCShellPath
  ExecPaths <- MCExecPaths
  Addresses <- MCAddresses
  Strings = {5, 9}
  PAGE = 4
INVARIANTS TypeOK EntriesFound CwdIsDirectory OffsetsInFile ImageOfBinary
PROPERTY Isolation
SYMMETRY MCSymmetry
