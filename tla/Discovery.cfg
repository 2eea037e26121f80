\* Counting and banning: discv4 and DNS find peers that share an address.
SPECIFICATION Spec
CONSTANTS
  p1 = p1
  p2 = p2
  a1 = a1
  a2 = a2
  None = None
  Empty = Empty
  Nodes = {n1}
  Peers = {p1, p2}
  Addrs = {a1}
  Versions = {v1}
  Tasks = {t1, t2}
  Threshold = 2
  MaxObservations = 1
  Discoverable <- OneRecord
  Listed <- Neighbour
  Inbound <- NoRecords
SYMMETRY TaskSymmetry
INVARIANTS
  TypeOK
  BansJustified
  SequentialCountsExact
  SequentialFailuresBanned
PROPERTIES
  PublishesSightings
CHECK_DEADLOCK FALSE
