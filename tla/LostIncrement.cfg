\* Two tasks count the failures of one peer and lose one of them.
SPECIFICATION Spec
CONSTANTS
  p1 = p1
  p2 = p2
  a1 = a1
  a2 = a2
  None = None
  Empty = Empty
  Nodes = {n1}
  Peers = {p1}
  Addrs = {a1}
  Versions = {v1}
  Tasks = {t1, t2}
  Threshold = 2
  MaxObservations = 0
  Discoverable <- OneRecord
  Listed <- OneRecord
  Inbound <- NoRecords
INVARIANTS
  BannedWithinThreshold
CHECK_DEADLOCK FALSE
