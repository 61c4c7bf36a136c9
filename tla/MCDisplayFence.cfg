\* Fences that wrap: five mode writes, fences modulo 5, a fence wait that may time out.
SPECIFICATION Spec
CONSTANTS
  MaxDraws = 2
  MaxModes = 5
  Cap = 1
  FenceMod = 5
  IDLE_HEARTBEAT_FRAMES = 1
  Capture = TRUE
  Requests = FALSE
  StatusReads = FALSE
INVARIANTS
  FenceOrdersDraws
