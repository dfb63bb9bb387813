SPECIFICATION Spec
CONSTANTS
  Names = {s1, s2, s3}
  Features = {f1, f2}
  Apis = {a1}
  NULL = NULL
  GrowStep = 2
  MaxServices = 2
  MaxFeatures = 1
INVARIANTS SlotsCounted RouteCorrect
PROPERTIES IdsStable ImplementsServiceMap
SYMMETRY Symmetry
