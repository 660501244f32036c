\* Two tracks, one of them published while the room is recorded: a composite,
\* a track egress at the start, one added later.
SPECIFICATION Spec
CONSTANTS
  Tracks = {t1, t2}
  Callers = {c1}
  MaxEgress = 3
  MaxRestarts = 0
  Redelivery = FALSE
INVARIANTS
  TypeOK
  ActiveIsUnfinished
  TracksListedOnce
  EndedIsTrue
  StopNamesWhatRuns
SYMMETRY Symmetry
CONSTRAINT FewNotices
CHECK_DEADLOCK FALSE
