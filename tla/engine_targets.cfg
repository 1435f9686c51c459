SPECIFICATION FairSpec
CONSTANTS
  NoLimit = NoLimit
  Instruments <- TwoInstruments
  Tapes <- TargetTapes
  Actions <- TargetActions
  MaxActions = 2
  InitialCash = 20
  FeeNum = 1
  FeeDen = 20
  SlipNum = 1
  SlipDen = 10
  WeightOne = 2
  MaxAbsPosition = 2
  MaxOrderQuantity = NoLimit
INVARIANTS
  PositionWithinLimit
  PositionIsLastTarget
PROPERTIES
  RunEnds
