SPECIFICATION Spec
CONSTANTS
  Symbols = {1, 2}
  LastDay = 2
  Listing <- TheListing
  Sessions = {1, 2}
  Traded <- TheTraded
  Events <- TheEvents
  VendorAdjusts = TRUE
  Threads = {t1, t2}
  Jobs = {"historical_backfill", "daily_update", "corporate_action_apply"}
  NoJob = NoJob
  JobDays = {1, 2}
  StartDays = {1, 2}
  MaxFaults = 1
  MaxRuns = 2
  MaxRestarts = 1
INVARIANTS TypeOK AtMostOneRun CheckpointInOrder NothingPassedOver HolesAreAlerted NoLookAhead NobodyStuck
PROPERTIES RepairIsExact EveryStepIsProgress
SYMMETRY AnyThread
CHECK_DEADLOCK FALSE
