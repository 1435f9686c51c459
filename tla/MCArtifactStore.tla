--------------------------- MODULE MCArtifactStore ---------------------------
(* Instances of ArtifactStore.                                              *)
EXTENDS ArtifactStore, TLC

CONSTANTS p1, p2, weights, policy

Asked(id, by, name, payload) ==
  [artifact_id |-> id, provenance |-> by, logical_name |-> name, payload |-> payload]

Digests == (weights :> "aa" @@ policy :> "bb" @@ Torn :> "cc")
Lengths == (weights :> 2 @@ policy :> 2 @@ Torn :> 0)

(* One identifier asked for with two payloads and, for the first, by two    *)
(* training runs; a payload named as the manifest; an identifier that is a  *)
(* path.                                                                    *)
CollidingSaves ==
  {Asked("a", "seed 7", "model.json", weights), Asked("a", "seed 8", "model.json", weights),
   Asked("a", "seed 7", "model.json", policy), Asked("a", "seed 7", "manifest.json", weights),
   Asked("..", "seed 7", "model.json", weights)}

OneSave == {Asked("a", "seed 7", "model.json", weights)}

(* Manifests of an artifact that was never saved, of a path in place of an  *)
(* identifier or a name, and of the other payload under the identifier.     *)
Foreign ==
  {[artifact_id |-> "b", provenance |-> "seed 7", logical_name |-> "model.json",
    sha256 |-> "aa", size_bytes |-> 2],
   [artifact_id |-> "..", provenance |-> "seed 7", logical_name |-> "model.json",
    sha256 |-> "aa", size_bytes |-> 2],
   [artifact_id |-> "a", provenance |-> "seed 7", logical_name |-> "..",
    sha256 |-> "aa", size_bytes |-> 2],
   [artifact_id |-> "a", provenance |-> "seed 7", logical_name |-> "model.json",
    sha256 |-> "bb", size_bytes |-> 2]}

Swap == Permutations(Processes)
=============================================================================
