\* A guest that enabled the interrupt and reads a DMA register as well.
SPECIFICATION LiveSpec
CONSTANTS
  QWORD = 4
  WORD = 2
  PAGE = 8
  VDMA_CHUNK_QWORDS = 2
  LineCounts = {1}
  Widths = {8}
  Repeats = {1}
  Strides <- StrideValues
  MemAdrs = {16, 18}
  Counts <- CountValues
  BadPages <- PageSets
  PollsWithIe = TRUE
PROPERTY
  AccessEnds
CHECK_DEADLOCK FALSE
