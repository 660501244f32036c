\* Two people and two requests at a time, two goroutines that process
\* recordings, a restart: everything that writes a report races the rest.
SPECIFICATION FairSpec
CONSTANTS
  Users = {u1, u2}
  Callers = {c1, c2}
  Workers = {w1, w2}
  MaxReports = 1
  MaxEgress = 1
  MaxRequests = 3
  SttConfigs = {TRUE, FALSE}
  mayRestart = TRUE
INVARIANTS
  TypeOK
  StoresAgree
  SessionHasPeople
  TranscriptHasRecording
  OneWorkerPerRecording
PROPERTIES
  GoroutinesAdvance
  NothingNewRevives
  GoroutinesFinish
CHECK_DEADLOCK FALSE
