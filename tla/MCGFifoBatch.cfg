\* Batches behind two heads that read at their own pace.
CONSTANTS
  DEPTH = 4
  HEADS = 2
  PublishEvery = 2
  Producers = {p1}
  Observers = {}
  Regs = {r1}
  Kinds = {"push_batch"}
  MaxSlice = 0
  MaxBatch = 1
SPECIFICATION LiveSpec
INVARIANTS BatchIntact NoSlotRace
PROPERTIES EntriesDrain SpinningPushEnds
