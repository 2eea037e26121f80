\* Writes and syncs as late as they come, within the slack and beyond it.
SPECIFICATION Spec
CONSTANTS
  Peers = {p1, p2}
  Period = 1
  Slack = 2
  ActiveQuery = {"runs", "fails"}
  MaxTime = 4
  MaxSightings = 2
SYMMETRY PeerSymmetry
INVARIANTS
  TypeOK
  CopyComplete
PROPERTIES
  CopiesSnapshots
CHECK_DEADLOCK FALSE
