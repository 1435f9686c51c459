---------------------------- MODULE MCOrchestrator ----------------------------
(* Instances of Orchestrator.                                               *)
EXTENDS Orchestrator, TLC

CONSTANTS p1, p2, weights, policy

Digests == (weights :> "aa" @@ policy :> "bb" @@ Torn :> "cc")
Lengths == (weights :> 2 @@ policy :> 2 @@ Torn :> 0)

(* Artifacts are named by their content: two trainings of one payload, and  *)
(* one of another.                                                          *)
Trained(by, payload) ==
  [artifact_id |-> Digests[payload], provenance |-> by,
   logical_name |-> "model.json", payload |-> payload]

Trainings == {Trained("seed 7", weights), Trained("seed 8", weights), Trained("seed 7", policy)}

NoStrangers == {}

Swap == Permutations(Processes)
=============================================================================
