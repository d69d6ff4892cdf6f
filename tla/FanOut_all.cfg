CONSTANTS
  d1 = d1
  d2 = d2
  d3 = d3
  Docs <- MCDocs
  Stored <- MCStored
  Names <- LoaderNames
  MaxRefs = 3
SPECIFICATION FairSpec
INVARIANTS VerdictInv TasksEndWhole TareasWholeInOrder
PROPERTIES KeepsPromise EventuallyTold
CHECK_DEADLOCK FALSE
