SPECIFICATION Spec
CONSTANTS
  NProcs = 2
  PAGE = 4
  START = 4
  KERNEL_MEM_END = 96
  KernelTables = 1
  StackSize = 8
  IdtSize = 2
  FaultsSize = 1
  FramesSize = 4
  ProcArrSize = 3
  MaxTables = 3
INVARIANTS
  TypeOK
  BlocksDisjoint
  TablesFillPages
