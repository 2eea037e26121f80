\* A row says not synced although the peer lags less than the threshold.
SPECIFICATION Spec
CONSTANTS
  p1 = p1
  a1 = a1
  None = None
  Empty = Empty
  Nodes = {n1}
  Peers = {p1}
  Addrs = {a1}
  Records <- OneRecord
  Versions = {v1}
  Tasks = {t1}
  Capacity = 2
  MaxInbound = 1
  Base = 0
  MaxEvents = 1
  MaxBlocks = 2
  MaxSightings = 2
INVARIANTS
  NotSyncedMeansBehind
CHECK_DEADLOCK FALSE
