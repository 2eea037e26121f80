\* Three tasks count the failures of one peer at once: the bans that are deserved arrive.
SPECIFICATION FairSpec
CONSTANTS
  p1 = p1
  p2 = p2
  a1 = a1
  a2 = a2
  None = None
  Empty = Empty
  Nodes = {n1}
  Peers = {p1}
  Addrs = {a1}
  Versions = {v1}
  Tasks = {t1, t2, t3}
  Threshold = 3
  MaxObservations = 1
  Discoverable <- OneRecord
  Listed <- OneRecord
  Inbound <- NoRecords
INVARIANTS
  BansJustified
  SequentialCountsExact
PROPERTIES
  OffendersBanned
  PersistentFailureBanned
CHECK_DEADLOCK FALSE
