SPECIFICATION Spec
CONSTANTS
  Procs = {lol, proc2}
  Main = main
  DEPTH = 3
  Words = {7, 8}
  ESP0 <- MCESP0
  SS = 16
INVARIANT
  UserespIsEsp
