\* The whole process: streams, sessions, blocks, questions, ends and restarts.
SPECIFICATION FairSpec
CONSTANTS
  p1 = p1
  a1 = a1
  None = None
  Empty = Empty
  Nodes = {n1}
  Peers = {p1}
  Addrs = {a1}
  Records <- OneRecord
  Versions = {v1}
  Tasks = {t1}
  Capacity = 1
  MaxInbound = 1
  Base = 0
  MaxEvents = 1
  MaxBlocks = 2
  MaxSightings = 2
INVARIANTS
  TypeOK
  SyncedWhenSeen
  HeardSessionsDropped
PROPERTIES
  PublishesSightings
  SyncedAnswered
CHECK_DEADLOCK FALSE
