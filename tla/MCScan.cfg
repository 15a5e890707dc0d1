CONSTANTS
  OwnId = 5
  Priority1 = 128
  Accuracy = 254
  Variance = 10
  Priority2 = 248
  N = 3
  Records <- Coherent
  Parents <- Follows3
SPECIFICATION ScanSpec
INVARIANTS TypeOKScan ScanFindsBest ElectsBestGrandmaster ElectionSettles ComparisonIsAntisymmetric
