CONSTANTS
  Users = {u1, u2}
  MaxWrites = 3
  kMaxPendingWrites = 2
  MaxFaults = 2
SPECIFICATION FairSpec
INVARIANTS
  PipelineInv
  AnswersMatch
  CompletionsTruthful
  AppliedInOrder
PROPERTIES
  KeepsPromise
  EventuallySettled

CHECK_DEADLOCK FALSE
