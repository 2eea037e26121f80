\* The statement of all_active_peers fails on PostgreSQL.
SPECIFICATION Spec
CONSTANTS
  Peers = {p1, p2}
  Period = 2
  Slack = 2
  ActiveQuery = {"fails"}
  MaxTime = 9
  MaxSightings = 2
SYMMETRY PeerSymmetry
INVARIANTS
  KeepsUpdating
CHECK_DEADLOCK FALSE
