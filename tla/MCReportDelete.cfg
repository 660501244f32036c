SPECIFICATION FairSpec
CONSTANTS
  Users = {u1}
  Callers = {c1, c2}
  Workers = {w1}
  MaxReports = 1
  MaxEgress = 0
  MaxRequests = 3
  SttConfigs = {FALSE}
  mayRestart = FALSE
PROPERTIES
  DeletedIsGone
CHECK_DEADLOCK FALSE
