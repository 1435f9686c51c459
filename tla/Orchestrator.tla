----------------------------- MODULE Orchestrator -----------------------------
(***************************************************************************)
(* run_rule and run_trainable (runtime/orchestrator.py) over the lifecycle *)
(* (runtime/lifecycle.py) and the artifact store.                          *)
(*                                                                         *)
(* A process runs one strategy after the other: it applies the             *)
(* compatibility plan, trains, saves, reloads and calls the engine.        *)
(* Several processes may share a store (one output directory), and a       *)
(* process that crashed is started again on the same store.                *)
(*                                                                         *)
(* train and load are those of the strategies (_save and load of           *)
(* supervised.py and reinforcement_learning.py): what is trained is one of *)
(* Requests, saved at once and reloaded with the manifest that was         *)
(* returned.  Engine and transformation end in any way they can.           *)
(***************************************************************************)
EXTENDS ArtifactStore, Sequences

(* The codes of the violations an engine raises by itself.                  *)
CONSTANT EngineErrors

(* They are none of the codes of the store, of the plan, of the lifecycle   *)
(* and of the orchestrator's other stages.                                  *)
ASSUME EngineErrorsAssumption ==
  EngineErrors \cap {"none", "ARTIFACT_NOT_FOUND", "ARTIFACT_HASH_MISMATCH",
                     "COMPATIBILITY_TRANSFORM_FAILED", "LIFECYCLE_TRANSITION_INVALID",
                     "TRAINING_FAILED", "INFERENCE_FAILED"} = {}

(* No bundled strategy names its artifact as the manifest (model.json and   *)
(* policy.json of _save), which the store would not refuse.                 *)
ASSUME TrainingsAssumption == \A r \in Requests : r.logical_name # ManifestName

States == {"DISCOVERED", "VALIDATED", "CAPABILITIES_NEGOTIATED", "INITIALIZED",
           "TRAINING", "ARTIFACT_SAVED", "ARTIFACT_LOADED", "INFERENCE_BACKTEST",
           "FINALIZED", "FAILED"}

(* _ALLOWED                                                                 *)
Allowed ==
  [DISCOVERED              |-> {"VALIDATED", "FAILED"},
   VALIDATED               |-> {"CAPABILITIES_NEGOTIATED", "FAILED"},
   CAPABILITIES_NEGOTIATED |-> {"INITIALIZED", "FAILED"},
   INITIALIZED             |-> {"TRAINING", "ARTIFACT_LOADED", "INFERENCE_BACKTEST",
                                "FAILED"},
   TRAINING                |-> {"ARTIFACT_SAVED", "FAILED"},
   ARTIFACT_SAVED          |-> {"ARTIFACT_LOADED", "FAILED"},
   ARTIFACT_LOADED         |-> {"INFERENCE_BACKTEST", "FAILED"},
   INFERENCE_BACKTEST      |-> {"FINALIZED", "FAILED"},
   FINALIZED               |-> {},
   FAILED                  |-> {}]

VARIABLES
  kind,     \* "rule" or "trainable": what the process runs
  todo,     \* the next statement of the run
  history,  \* lifecycle.history; its last element is lifecycle.state
  failure,  \* the code of the violation that ended the run
  model     \* the payload the strategy has loaded

runVars == <<kind, todo, history, failure, model>>
vars    == <<storeVars, runVars>>

State(p) == history[p][Len(history[p])]

OrchestratorInit ==
  /\ StoreInit
  /\ kind = [p \in Processes |-> "rule"]
  /\ todo = [p \in Processes |-> "start"]
  /\ history = [p \in Processes |-> <<>>]
  /\ failure = [p \in Processes |-> "none"]
  /\ model = [p \in Processes |-> None]

Ready(p, statement) == todo[p] = statement /\ pc[p] = "idle"

(* lifecycle.transition to each of the states in turn, and on to next.  A   *)
(* transition that _ALLOWED forbids is raised as a violation of its own.    *)
Legal(from, to) == to \in Allowed[from]

Transition(p, states, next) ==
  LET walk == <<State(p)>> \o states IN
  IF \A i \in 1 .. Len(states) : Legal(walk[i], walk[i + 1])
  THEN /\ history' = [history EXCEPT ![p] = @ \o states]
       /\ todo' = [todo EXCEPT ![p] = next]
       /\ UNCHANGED failure
  ELSE /\ history' = [history EXCEPT ![p] = Append(@, "FAILED")]
       /\ todo' = [todo EXCEPT ![p] = "done"]
       /\ failure' = [failure EXCEPT ![p] = "LIFECYCLE_TRANSITION_INVALID"]

(* lifecycle.fail, and the violation leaves the run.                        *)
Raise(p, code) ==
  /\ history' = [history EXCEPT ![p] =
                   IF State(p) \in {"FINALIZED", "FAILED"} THEN @ ELSE Append(@, "FAILED")]
  /\ failure' = [failure EXCEPT ![p] = code]
  /\ todo' = [todo EXCEPT ![p] = "done"]
  /\ UNCHANGED <<kind, model>>

CodeAt(state) ==
  CASE state = "TRAINING"           -> "TRAINING_FAILED"
    [] state = "INFERENCE_BACKTEST" -> "BACKTEST_FAILED"
    [] OTHER                        -> "INFERENCE_FAILED"

(* A slip: the state is read after lifecycle.fail.                          *)
SlipCodeAfterFail(p) ==
  IF kind[p] = "rule" THEN "BACKTEST_FAILED" ELSE CodeAt("FAILED")

(* The code for an exception that is no violation.                          *)
ExceptionCode(p) == IF kind[p] = "rule" THEN "BACKTEST_FAILED" ELSE CodeAt(State(p))

-----------------------------------------------------------------------------
Begin(p, what, states) ==
  /\ todo[p] \in {"start", "done"} /\ pc[p] = "idle"
  /\ kind' = [kind EXCEPT ![p] = what]
  /\ history' = [history EXCEPT ![p] = states]
  /\ todo' = [todo EXCEPT ![p] = "transform"]
  /\ failure' = [failure EXCEPT ![p] = "none"]
  /\ model' = [model EXCEPT ![p] = None]
  /\ Restart(p)

BeginRule(p) == Begin(p, "rule", <<"DISCOVERED">>)

BeginTrainable(p) ==
  Begin(p, "trainable",
        <<"DISCOVERED", "VALIDATED", "CAPABILITIES_NEGOTIATED", "INITIALIZED">>)

TransformRule(p) ==
  /\ Ready(p, "transform") /\ kind[p] = "rule"
  /\ Transition(p, <<"VALIDATED", "CAPABILITIES_NEGOTIATED", "INITIALIZED",
                     "INFERENCE_BACKTEST">>, "engine")
  /\ UNCHANGED <<kind, model, storeVars>>

TransformTrainable(p) ==
  /\ Ready(p, "transform") /\ kind[p] = "trainable"
  /\ Transition(p, <<"TRAINING">>, "train")
  /\ UNCHANGED <<kind, model, storeVars>>

TransformFails(p) ==
  /\ Ready(p, "transform")
  /\ Raise(p, "COMPATIBILITY_TRANSFORM_FAILED")
  /\ UNCHANGED storeVars

TrainingFails(p) ==
  /\ Ready(p, "train")
  /\ Raise(p, ExceptionCode(p))
  /\ UNCHANGED storeVars

Train(p, r) ==
  /\ Ready(p, "train")
  /\ CallSave(p, r)
  /\ todo' = [todo EXCEPT ![p] = "saving"]
  /\ UNCHANGED <<kind, history, failure, model>>

(* A slip: the run goes on from TRAINING when the artifact was there.       *)
SlipForgetsSaved(p) ==
  /\ Ready(p, "saving") /\ answer[p] = "saved"
  /\ CallLoad(p, kept[p])
  /\ todo' = [todo EXCEPT ![p] = "loading"]
  /\ UNCHANGED <<history, failure, kind, model>>

(* train returns its manifest, which names the strategy itself, so the      *)
(* check at the head of load passes.                                        *)
Reload(p) ==
  /\ Ready(p, "saving") /\ answer[p] = "saved"
  /\ CallLoad(p, kept[p])
  /\ Transition(p, <<"ARTIFACT_SAVED">>, "loading")
  /\ UNCHANGED <<kind, model>>

StoreFails(p) ==
  /\ Ready(p, "saving") \/ Ready(p, "loading")
  /\ answer[p] \in Refusals
  /\ Raise(p, IF answer[p] = "exception" THEN ExceptionCode(p) ELSE answer[p])
  /\ UNCHANGED storeVars

StartInference(p) ==
  /\ Ready(p, "loading") /\ answer[p] = "loaded"
  /\ model' = [model EXCEPT ![p] = loaded[p]]
  /\ Transition(p, <<"ARTIFACT_LOADED", "INFERENCE_BACKTEST">>, "engine")
  /\ UNCHANGED <<kind, storeVars>>

(* The report is returned; it carries the manifest kept.                    *)
EngineReturns(p) ==
  /\ Ready(p, "engine")
  /\ Transition(p, <<"FINALIZED">>, "done")
  /\ UNCHANGED <<kind, model, storeVars>>

EngineFails(p) ==
  /\ Ready(p, "engine")
  /\ \E code \in EngineErrors \cup {ExceptionCode(p)} : Raise(p, code)
  /\ UNCHANGED storeVars

CrashRun(p) ==
  /\ todo[p] # "start" /\ Restart(p)
  /\ todo' = [todo EXCEPT ![p] = "start"]
  /\ kind' = [kind EXCEPT ![p] = "rule"]
  /\ history' = [history EXCEPT ![p] = <<>>]
  /\ failure' = [failure EXCEPT ![p] = "none"]
  /\ model' = [model EXCEPT ![p] = None]

Run(p) ==
  \/ TransformRule(p) \/ TransformTrainable(p) \/ TransformFails(p)
  \/ TrainingFails(p) \/ \E r \in Requests : Train(p, r)
  \/ Reload(p) \/ StoreFails(p) \/ StartInference(p)
  \/ EngineReturns(p) \/ EngineFails(p)
  \/ Call(p) /\ UNCHANGED runVars

OrchestratorNext ==
  \/ Damage /\ UNCHANGED runVars
  \/ \E p \in Processes : Run(p) \/ BeginRule(p) \/ BeginTrainable(p) \/ CrashRun(p)

OrchestratorSpec == OrchestratorInit /\ [][OrchestratorNext]_vars

-----------------------------------------------------------------------------
(* The types of a run in progress.                                          *)
OrchestratorTypeOK ==
  /\ StoreTypeOK
  /\ kind \in [Processes -> {"rule", "trainable"}]
  /\ todo \in [Processes -> {"start", "transform", "train", "saving", "loading",
                             "engine", "done"}]
  /\ history \in [Processes -> Seq(States)]
  /\ model \in [Processes -> Content \cup {None}]
  /\ \A p \in Processes : todo[p] \in {"start", "done", "transform", "train", "engine"}
                            => pc[p] = "idle"

Before(p) == history[p][Len(history[p]) - 1]

(* The orchestrator never asks for a transition the lifecycle forbids, and  *)
(* every run ends in FINALIZED or FAILED, never in between.                 *)
TransitionsLegal ==
  \A p \in Processes :
    /\ failure[p] # "LIFECYCLE_TRANSITION_INVALID"
    /\ todo[p] = "done" => State(p) = IF failure[p] = "none" THEN "FINALIZED" ELSE "FAILED"

(* "Inference only after a successful reload": the engine of a trainable    *)
(* strategy works with exactly what this run's training produced, whatever  *)
(* other runs did to the shared store, and whatever was damaged in it.      *)
InferenceOnTrained ==
  \A p \in Processes :
    kind[p] = "trainable" /\ history[p] # <<>>
      /\ State(p) \in {"INFERENCE_BACKTEST", "FINALIZED"} =>
         /\ model[p] = request[p].payload
         /\ <<"TRAINING", "ARTIFACT_SAVED", "ARTIFACT_LOADED">> = SubSeq(history[p], 5, 7)

(* The code of a failure tells the stage it happened in.                    *)
CodeTellsStage ==
  \A p \in Processes :
    failure[p] # "none" =>
      /\ failure[p] = "TRAINING_FAILED"  => Before(p) = "TRAINING"
      /\ failure[p] = "INFERENCE_FAILED" => Before(p) = "ARTIFACT_SAVED"
      /\ failure[p] \in EngineErrors \cup {"BACKTEST_FAILED"}
           => Before(p) = "INFERENCE_BACKTEST"
      /\ failure[p] \in {"ARTIFACT_NOT_FOUND", "ARTIFACT_HASH_MISMATCH"}
           => Before(p) \in {"TRAINING", "ARTIFACT_SAVED"}
      /\ Before(p) = "INFERENCE_BACKTEST" => failure[p] \in EngineErrors \cup {"BACKTEST_FAILED"}

(* The artifact of a finished run stays in the store as reported, for the   *)
(* verifier to find, as long as nothing is damaged.                         *)
ReportedArtifactWhole ==
  damage = 0 =>
    \A p \in Processes :
      kind[p] = "trainable" /\ history[p] # <<>> /\ State(p) = "FINALIZED"
        => Whole(kept[p])

(* The store implements the registry of artifacts.                          *)
Published ==
  {id \in Ids : <<id, ManifestName>> \in DOMAIN files
                  /\ files[<<id, ManifestName>>] \in Manifest
                  /\ Target(files[<<id, ManifestName>>]) \in DOMAIN files}

Registry == INSTANCE ArtifactRegistry WITH
  sound <- damage = 0, kept <- kept, read <- loaded,
  published <- [id \in Published |->
                  [manifest |-> files[<<id, ManifestName>>],
                   payload  |-> files[Target(files[<<id, ManifestName>>])]]]

ImplementsRegistry == Registry!RegistrySpec
=============================================================================
