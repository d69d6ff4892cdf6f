CONSTANTS
  p1 = p1
  p2 = p2
  t1 = t1
  t2 = t2
  s1 = s1
  c1 = c1
  c2 = c2
  c3 = c3
  Phones <- OnePhone
  Teams <- TwoTeams
  Drawer <- AllByOne
  Students <- OneStudent
  limit = 3
  Creators <- ThreeCreators
  MaxClassrooms = 1
  MaxCrashes = 1
SPECIFICATION FairSpec
INVARIANTS RequestInv TeamsHaveMembers
PROPERTIES ClosesItsCreator LostStaysUnlisted EventuallyTold
