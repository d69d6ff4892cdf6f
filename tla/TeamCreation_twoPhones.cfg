CONSTANTS
  p1 = p1
  p2 = p2
  t1 = t1
  t2 = t2
  s1 = s1
  c1 = c1
  c2 = c2
  c3 = c3
  Phones <- TwoPhones
  Teams <- TwoTeams
  Drawer <- OneEach
  Students <- OneStudent
  limit = 3
  Creators <- TwoCreators
  MaxClassrooms = 0
  MaxCrashes = 0
SPECIFICATION Spec
INVARIANTS ListedTeamsExist TruthfulVerdict
PROPERTIES KeepsLedger
