CONSTANTS
  p1 = p1
  p2 = p2
  weights = weights
  policy = policy
  Torn = Torn
  None = None
  Processes = {p1, p2}
  Ids = {"a", "b", ".."}
  Names = {"model.json", "manifest.json", ".."}
  Unsafe = {".."}
  Provenances = {"seed 7", "seed 8"}
  Payloads = {weights, policy}
  Sha256 <- Digests
  Size <- Lengths
  Requests <- CollidingSaves
  Strangers <- Foreign
  MaxDamage = 1
SYMMETRY Swap
SPECIFICATION StoreSpec
INVARIANTS StoreTypeOK LoadsWhatItSaved ManifestMeansWhole SavedIsLoadable
