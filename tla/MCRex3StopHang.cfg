\* A transfer to the board with more words left than the ring holds.
SPECIFICATION LiveSpec
CONSTANTS
  Cap = 2
  MaxGen = 2
  MaxWords = 3
  StopWhenHalted = FALSE
  StoreBuffered = FALSE
PROPERTIES StopEnds
\* The stop that never ends is the behaviour in question.
CHECK_DEADLOCK FALSE
