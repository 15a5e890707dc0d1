CONSTANTS
  a = a
  b = b
  Ports = {a, b}
  Roles <- LinkRoles
  SequenceIdSpace = 3
  MaxLosses = 1
  NoExchange = NoExchange
SPECIFICATION FairSpec
INVARIANTS TypeOK
PROPERTIES SendTimesBelongTogether UndisturbedStampsBelongTogether KeepsMeasuring
