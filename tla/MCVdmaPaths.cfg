\* Every engine against the reference, and what the guest is told.
SPECIFICATION LiveSpec
CONSTANTS
  QWORD = 4
  WORD = 2
  PAGE = 8
  VDMA_CHUNK_QWORDS = 2
  LineCounts = {1, 2}
  Widths = {3, 8}
  Repeats = {0, 1, 3}
  Strides <- StrideValues
  MemAdrs = {16, 18}
  Counts <- CountValues
  BadPages <- PageSets
  PollsWithIe = FALSE
INVARIANTS
  
  FaultsAgree
  StatusIsTrue
PROPERTIES
  FirstPollSeesRun
  TransferRetires
