SPECIFICATION Spec
CONSTANTS
  Runs = {r1}
  Requests = {c1}
  Days = 2
  FaultKinds = {}
  MaxFaults = 0
  MaxCrashes = 0
PROPERTIES CancelledNeverStarts
CHECK_DEADLOCK FALSE
