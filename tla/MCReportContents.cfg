SPECIFICATION FairSpec
CONSTANTS
  Callers = {c1, c2}
  Recordings <- MCRecordings
  MaxRequests = 4
  MaxRestarts = 1
INVARIANTS
  TypeOK
  LabelsFollowSpeakers
  NamesAreKnown
  StatsAreOfTranscript
  TrendIsWhole
  RecordingStays
  StatusMatchesContents
  ReadsKeepContents
  ProcessingIsWorkedOn
PROPERTY Settles
ACTION_CONSTRAINT FewerRequests
CHECK_DEADLOCK FALSE
