\* Two CPUs and a compile worker that lead in turn; HEART disables; CPU threads come and go.
SPECIFICATION WorldLive
CONSTANTS
  None = None
  c1 = c1
  c2 = c2
  w1 = w1
  Cpus = {c1, c2}
  Others = {w1}
  Disables = TRUE
  Remappers = {c1}
  MaxStops = 2
INVARIANTS
  WInv
  Exclusive
PROPERTIES
  DisabledStaysStill
  HoldTakesEffect
  TurnsTaken
