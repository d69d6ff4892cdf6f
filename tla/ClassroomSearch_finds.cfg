SPECIFICATION Spec
CONSTANTS
  s1 = s1
  s2 = s2
  i1 = i1
  i2 = i2
  d1 = d1
  d2 = d2
  d3 = d3
  pdf = pdf
  pdf3 = pdf3
  jpg1 = jpg1
  jpg2 = jpg2
  Salones = {s1, s2}
  Numero <- MCNumero
  Imagenes <- MCImagenes
  Imagen360 = {s1}
  Documentos <- MCDocumentos
  Nombre <- MCNombre
  Textos = {"a"}
  Named <- MCNamed
  Collections <- MCCollections
  MaxVisits = 3
  MaxTaps = 2
INVARIANTS
  TableTruthful
  HudSpeaksTruth
  PreviewsTheTapped
CHECK_DEADLOCK FALSE
