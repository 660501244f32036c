SPECIFICATION Spec
CONSTANTS
  Callers = {c1, c2}
  Recordings <- MCRecordings
  MaxRequests = 4
  MaxRestarts = 1
INVARIANTS
  ValidAnalysisIsKept
CHECK_DEADLOCK FALSE
