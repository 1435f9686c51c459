CONSTANTS
  NoTarget = NoTarget
  Tapes <- BarTapes
  Quantities <- Targets
  LotSize = 24
  Doubles <- FewDoubles
  Printed <- Shortest
  MaxActions = 2
  MaxRefusals = 1
SPECIFICATION Spec
INVARIANT RejectionsReported
