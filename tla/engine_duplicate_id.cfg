SPECIFICATION Spec
CONSTANTS
  NoLimit = NoLimit
  Instruments <- TwoInstruments
  Tapes <- OrderTapes
  Actions <- CollidingActions
  MaxActions = 2
  InitialCash = 10
  FeeNum = 1
  FeeDen = 20
  SlipNum = 1
  SlipDen = 10
  WeightOne = 2
  MaxAbsPosition = NoLimit
  MaxOrderQuantity = NoLimit
INVARIANT LiveIdsUnique
