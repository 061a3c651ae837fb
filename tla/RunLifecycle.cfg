SPECIFICATION Spec
CONSTANTS
  Runs = {r1}
  Requests = {c1, c2}
  Days = 2
  FaultKinds = {"data", "engine", "flush", "commit", "refresh"}
  MaxFaults = 2
  MaxCrashes = 1
INVARIANTS TypeOK StatusIsTrue TokenIffWorker
PROPERTIES ResultsPublishedOnce SignalledLoopStops EveryWorkerEnds ImplementsRunOutcome
CHECK_DEADLOCK FALSE
