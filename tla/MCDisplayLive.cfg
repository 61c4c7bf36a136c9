\* Draws, modes, requests and retraces get through under the fairness of the threads.
SPECIFICATION LiveSpec
CONSTANTS
  MaxDraws = 1
  MaxModes = 1
  Cap = 1
  FenceMod = 5
  IDLE_HEARTBEAT_FRAMES = 1
  Capture = FALSE
  Requests = TRUE
  StatusReads = TRUE
PROPERTIES
  
  
  VblankRecovers
