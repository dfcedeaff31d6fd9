SPECIFICATION Spec
CONSTANTS
  SECTOR = 4
  Stage2Sectors = 2
  BssBytes = 1
  SECS = 4
  BUFFER = 2
  Segments <- MCSegments
  BUSES = 2
  DEVICES = 1
  FUNCTIONS = 2
  MaxKeys = 2
INVARIANTS
  KernelLoaded
  ControllersStopped
  A20AtKernel
PROPERTIES
  Boots
