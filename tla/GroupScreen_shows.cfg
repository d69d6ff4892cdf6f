CONSTANTS
  t1 = t1
  t2 = t2
  s1 = s1
  s2 = s2
  s3 = s3
  Docs <- MCDocs
  Integrantes <- MCIntegrantes
  Groups <- AllGroups
  MaxAppearances = 2
  MaxClassrooms = 1
SPECIFICATION FairSpec
INVARIANTS ShowsWhole DownloadingWhenSaid
PROPERTIES OffersWhoLacksATeam EventuallyShown
CHECK_DEADLOCK FALSE
