\* Blocks, reorganisations, queries of two tasks and the end of the subscription under the scheduler's fairness.
SPECIFICATION FairSpec
CONSTANTS
  Askers = {i1, i2}
  Capacity = 2
  Budget = 2
  Known = 1
  MaxAnnouncements = 3
INVARIANTS
  TypeOK
  CacheIsRecent
  SyncedMeansClose
  
  ExactWithoutReorgs
PROPERTIES
  ImplementsOracle
  BlocksLearned
