SPECIFICATION FairSpec
CONSTANTS
  Keys = {k1}
  Refs = {r1}
  NoRef = NoRef
  Durations = {short}
  NoLabel = NoLabel
  BadLabel = BadLabel
  ApiFaults = FALSE
  MaxEdits = 2
  MaxCrashes = 0
CHECK_DEADLOCK FALSE
PROPERTIES QuietTriggerIsScheduled
