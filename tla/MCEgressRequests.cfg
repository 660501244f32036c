\* Two requests at once, two composites and a restart: starts and stops race
\* each other and webhooks in any order, late and repeated.
SPECIFICATION Spec
CONSTANTS
  Tracks = {}
  Callers = {c1, c2}
  MaxEgress = 2
  MaxRestarts = 1
  Redelivery = TRUE
INVARIANTS
  ActiveMirrorsHistory
  StopReleasesWhatEnded
PROPERTY ReleasesItsOwn
SYMMETRY Symmetry
CHECK_DEADLOCK FALSE
