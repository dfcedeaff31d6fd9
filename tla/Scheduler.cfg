SPECIFICATION FairSpec
CONSTANTS
  MAX_PROC = 3
  MaxCreated = 3
  MaxWork = 1
  Priorities = {0, 3}
  BootTicks = 3
  AddPreemptible = FALSE
  WORD = 65536
INVARIANTS
  TypeOK
  ContextPreserved
  OwnAddressSpace
  BoundedWaiting
  SliceNotOvershot
PROPERTIES
  EveryProcessRuns
