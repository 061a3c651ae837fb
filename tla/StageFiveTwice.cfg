SPECIFICATION Spec
CONSTANTS
  Symbols = {1, 2}
  LastDay = 2
  Listing <- TheListing
  Sessions = {1, 2}
  Traded <- TheTraded
  Events <- OneSplit
  VendorAdjusts = FALSE
  Threads = {t1}
  Jobs = {"historical_backfill"}
  NoJob = NoJob
  JobDays = {2}
  StartDays = {1}
  MaxFaults = 0
  MaxRuns = 2
  MaxRestarts = 1
INVARIANT NothingAccumulates
CHECK_DEADLOCK FALSE
