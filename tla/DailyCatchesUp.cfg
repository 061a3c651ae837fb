SPECIFICATION Spec
CONSTANTS
  Symbols = {1}
  LastDay = 3
  Listing <- OnlyOne
  Sessions = {1, 2, 3}
  Traded <- EverySession
  Events = {}
  VendorAdjusts = FALSE
  Threads = {t1}
  Jobs = {"daily_update"}
  NoJob = NoJob
  JobDays = {1, 3}
  StartDays = {1}
  MaxFaults = 0
  MaxRuns = 2
  MaxRestarts = 1
PROPERTY DailyCatchesUp
CHECK_DEADLOCK FALSE
