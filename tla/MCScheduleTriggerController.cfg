SPECIFICATION FairSpec
CONSTANTS
  Keys = {k1}
  Refs = {r1, r2}
  NoRef = NoRef
  Durations = {short, long}
  NoLabel = NoLabel
  BadLabel = BadLabel
  ApiFaults = TRUE
  MaxEdits = 3
  MaxCrashes = 1
CHECK_DEADLOCK FALSE
INVARIANTS TypeOK OneTimerPerTrigger TimerMatchesLabel
PROPERTIES TransitionKeepsEdits WorkerReturns TimerFollowsLabel
