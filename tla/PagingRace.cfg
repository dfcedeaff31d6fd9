SPECIFICATION Spec
CONSTANTS
  Kernel = kernel
  Procs = {p1, p2}
  NFRAMES = 8
  WORD_BITS = 4
  PAGES_PER_TABLE = 2
  KERNEL_PAGES = 3
  HeapPages = 1
INVARIANTS
  CheckedFree
