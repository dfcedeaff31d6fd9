SPECIFICATION FairSpec
CONSTANTS
  Lines = {0, 1, 8, 14}
  Faults = {0, 14, 17}
  Procs = {p, q}
  StaleNos = {0, 32, 40}
  MaxRequests = 3
INVARIANTS
  TypeOK
  NoneLeftInService
  FrameMatchesVector
  StopsOnlyOnFault
PROPERTIES
  EveryRequestServed
