CONSTANTS
  p1 = p1
  p2 = p2
  weights = weights
  policy = policy
  Torn = Torn
  None = None
  Processes = {p1, p2}
  Ids = {"aa", "bb"}
  Names = {"model.json"}
  Unsafe = {}
  Provenances = {"seed 7", "seed 8"}
  Payloads = {weights, policy}
  Sha256 <- Digests
  Size <- Lengths
  Requests <- Trainings
  Strangers <- NoStrangers
  MaxDamage = 1
  EngineErrors = {"ACTION_INVALID"}
SYMMETRY Swap
SPECIFICATION OrchestratorSpec
INVARIANTS OrchestratorTypeOK TransitionsLegal InferenceOnTrained CodeTellsStage ReportedArtifactWhole
PROPERTY ImplementsRegistry
