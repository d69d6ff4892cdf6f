CONSTANTS
  MaxReads = 2
  MaxVersion = 2
  MaxFaults = 1
SPECIFICATION FairSpec
INVARIANTS
  TypeOK
  TrackerConsistent
  SnapshotsTruthful
PROPERTIES
  KeepsReadPromise
  EventuallyAnswered

CHECK_DEADLOCK FALSE
