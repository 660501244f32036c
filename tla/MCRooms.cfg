SPECIFICATION Spec
CONSTANTS
  Users = {1, 2}
  Callers = {c1}
  Devices = {mic}
  Reports = {1}
  MaxTime = 2
INVARIANTS
  TypeOK
  HasHost
  ClosedIsLeft
  EverybodyHasShares
  OffTimeIsExact
PROPERTIES
  ReportKept
  MeetingSpec
