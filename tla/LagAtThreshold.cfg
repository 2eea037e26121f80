\* A peer that lags exactly SYNCED_THRESHOLD blocks.
SPECIFICATION Spec
CONSTANTS
  Askers = {i1}
  Capacity = 2
  Budget = 2
  Known = 1
  MaxAnnouncements = 4
INVARIANTS
  ThresholdLagIsSynced
