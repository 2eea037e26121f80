\* Sightings of the same peers, inbound and by DNS, by two nodes with one database.
SPECIFICATION Spec
CONSTANTS
  p1 = p1
  p2 = p2
  a1 = a1
  a2 = a2
  None = None
  Empty = Empty
  Nodes = {n1, n2}
  Peers = {p1, p2}
  Addrs = {a1, a2}
  Versions = {v1}
  Tasks = {t1, t2, t3}
  Threshold = 1
  MaxObservations = 3
  Discoverable <- NoRecords
  Listed <- NoRecords
  Inbound <- AllRecords
SYMMETRY NodeAndTaskSymmetry
PROPERTIES
  PublishesSightings
CHECK_DEADLOCK FALSE
