\* Two producers, two heads and a thread that asks is_empty, against the abstract queue.
CONSTANTS
  DEPTH = 2
  HEADS = 2
  PublishEvery = 2
  Producers = {p1,p2}
  Observers = {o1}
  Regs = {r1}
  Kinds = {"push", "try_push2", "try_push_slice", "publish_tail"}
  MaxSlice = 1
  MaxBatch = 0
SPECIFICATION Spec
INVARIANTS
  EmptyIsAuthoritative IndInv
 
SYMMETRY Threads
