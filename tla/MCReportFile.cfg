SPECIFICATION FairSpec
CONSTANTS
  Users = {u1}
  Callers = {c1}
  Workers = {w1}
  MaxReports = 1
  MaxEgress = 1
  MaxRequests = 4
  SttConfigs = {TRUE}
  mayRestart = FALSE
PROPERTIES
  FileIsProcessed
CHECK_DEADLOCK FALSE
