SPECIFICATION Spec
CONSTANTS
  MAX_PROC = 3
  MaxCreated = 1
  MaxWork = 1
  Priorities = {0, 3}
  BootTicks = 3
  AddPreemptible = TRUE
  WORD = 65536
INVARIANTS
  RunsOwnProgram
