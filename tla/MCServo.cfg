CONSTANTS
  Second = 500
  IntSpan = 2048
  ULongSpan = 4400000
  IntBits = 10
  Microsecond = 2
  ADJ_FREQ_MAX = 20
  ap = 2
  ai = 20
  stiffness = 3
  Now = 40200
  Late = 300
  Leap <- Backwards
  MaxFaults = 1
  Circumstances <- Cases
SPECIFICATION Spec
INVARIANTS TypeOK FilterFits SecondsTellSize NeverWorse OnlySteered StaysNear DelayWithinPath
PROPERTIES SetsAsMeasured Settles LearnsSkew
