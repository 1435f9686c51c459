CONSTANTS
  InstrumentRank <- Ranks
  InstrumentLength <- Lengths
  ContractMajor = 1
  Requests <- Asked
SPECIFICATION Spec
INVARIANTS CompilerTypeOK RefusedIffUnfit RequirementsSatisfied DeliveredInOrder Causal WholeTapesConvert LossesDeclared
