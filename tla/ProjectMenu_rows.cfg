CONSTANTS
  c1 = c1
  c2 = c2
  g1 = g1
  g2 = g2
  q1 = q1
  Docs <- MCDocs
  Grupos <- MCGrupos
  Estudiantes <- MCEstudiantes
  Ninguno = Ninguno
  MaxRequests = 4
SPECIFICATION FairSpec
INVARIANTS TablesWhole UnderItsParent HudSpeaksTruth
PROPERTIES HudComesDown
CHECK_DEADLOCK FALSE
