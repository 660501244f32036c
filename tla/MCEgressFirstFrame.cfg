SPECIFICATION Spec
CONSTANTS
  Tracks = {}
  Callers = {c1}
  MaxEgress = 1
  MaxRestarts = 0
  Redelivery = FALSE
INVARIANT StopWaitsForFirstFrame
CHECK_DEADLOCK FALSE
