SPECIFICATION Spec
CONSTANTS
  Callers = {c1}
  Recordings <- MCManyVoices
  MaxRequests = 1
  MaxRestarts = 0
INVARIANTS
  VoicesStayApart
CHECK_DEADLOCK FALSE
