SPECIFICATION FairSpec
CONSTANTS
  HDR = 2
  PAGE_SIZE = 8
  WORD = 64
  MaxPages = 3
  Requests = {2, 3, 9}
  Aligns = {FALSE, TRUE}
PROPERTIES
  AlignedSearchEnds
