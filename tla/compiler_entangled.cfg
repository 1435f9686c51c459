CONSTANTS
  InstrumentRank <- Ranks
  InstrumentLength <- Lengths
  ContractMajor = 1
  Requests <- Entangled
SPECIFICATION Spec
INVARIANT RequirementsSatisfied
