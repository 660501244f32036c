SPECIFICATION Spec
CONSTANTS
  Tracks = {}
  Callers = {c1}
  MaxEgress = 2
  MaxRestarts = 0
  Redelivery = FALSE
PROPERTY ReleasedMeansEnded
CHECK_DEADLOCK FALSE
