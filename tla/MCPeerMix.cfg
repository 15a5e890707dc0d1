CONSTANTS
  a = a
  b = b
  Ports = {a, b}
  Roles <- MasterAndSlave
  SequenceIdSpace = 3
  MaxLosses = 0
  NoExchange = NoExchange
SPECIFICATION Spec
INVARIANTS MeasuresOneExchange
