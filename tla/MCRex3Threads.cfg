\* Three processor threads, one after the other, with a store buffer; the words of a transfer in flight fit the ring.
SPECIFICATION LiveSpec
CONSTANTS
  Cap = 2
  MaxGen = 3
  MaxWords = 2
  StopWhenHalted = FALSE
  StoreBuffered = TRUE
INVARIANTS IdleMeansExecuted 
PROPERTIES EntriesExecuted StopEnds
