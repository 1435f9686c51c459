SPECIFICATION StrategiesSpec
CONSTANTS
  NoLimit = NoLimit
  Instruments <- ThreeInstruments
  Tapes <- MCTapes
  Actions <- BookActions
  MaxActions = 6
  InitialCash = 10
  FeeNum = 1
  FeeDen = 20
  SlipNum = 1
  SlipDen = 10
  WeightOne = 2
  MaxAbsPosition = NoLimit
  MaxOrderQuantity = NoLimit
  Sessions <- MCSessions
  FreeActions = 2
  Lookback = 2
  ShortWindow = 1
  LongWindow = 2
  Slices = 2
  SliceQuantity = 2
  MaxTick = 2
  PairSymbols <- MCPair
  BatchSymbols <- MCBatch
INVARIANTS
  EquityIdentity
  AverageWithinFills
  FillsExplainAccount
  BundledStrategiesServe
