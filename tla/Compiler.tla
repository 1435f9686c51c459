-------------------------------- MODULE Compiler --------------------------------
(***************************************************************************)
(* compile_run (contract/compiler.py) and what becomes of its plan: the    *)
(* events of the dataset are transformed record by record (run_rule and    *)
(* run_trainable call apply_compatibility_plan) and are delivered to the   *)
(* engine, or the run fails on the way.                                    *)
(*                                                                         *)
(* A request holds the four manifests (contract/models.py) and the events. *)
(* Versions are their major numbers, support levels and sandbox modes      *)
(* their ranks; a timeframe keeps mode and interval, as it is spelled and   *)
(* in seconds (0 for what _duration_seconds does not read), and its        *)
(* timezone, calendar and alignment are one field, grid.  Hashes,          *)
(* rationales, record counts and the fields no check reads are left out.   *)
(***************************************************************************)
EXTENDS Compatibility, FiniteSets

CONSTANTS
  Requests,      \* what may be asked: see the fields used below
  ContractMajor

(* Data requirements and streams are tuples; intervals, support levels and  *)
(* sandbox modes have an order; whatever names an instrument is one; no     *)
(* event is available before its time (MarketEvent.validate_times).         *)
Tuple(t) == Len(t) \in Nat /\ DOMAIN t = 1 .. Len(t)

ASSUME RequestsAssumption ==
  \A r \in Requests :
    /\ {r.strategy.sandbox, r.policy.sandbox, r.policy.support, r.engine.support} \subseteq Nat
    /\ Tuple(r.strategy.requirements) /\ Tuple(r.dataset.streams)
    /\ \A n \in DOMAIN r.strategy.requirements :
         r.strategy.requirements[n].timeframe.interval \in Nat
    /\ \A n \in DOMAIN r.dataset.streams : r.dataset.streams[n].timeframe.interval \in Nat
    /\ r.events \in Seq(Event)
    /\ \A n \in DOMAIN r.events : r.events[n].event_time <= r.events[n].available_time
    /\ \A i \in DOMAIN r.policy.mapping : r.policy.mapping[i] \in DOMAIN InstrumentRank

VARIABLES
  request,
  stage,     \* "declaration", "requirement", "sandbox", "planned",
             \* "delivered", "refused" or "failed"
  next,      \* the requirement being compiled, or the record being applied
  records,   \* the compatibility records of the plan
  events,    \* the events as transformed so far
  code       \* why the run was refused or failed

vars == <<request, stage, next, records, events, code>>

strategy == request.strategy
engine   == request.engine
policy   == request.policy
streams  == request.dataset.streams

Init ==
  /\ request \in Requests
  /\ stage = "declaration"
  /\ next = 1
  /\ records = <<>>
  /\ events = request.events
  /\ code = "none"

-----------------------------------------------------------------------------
(* Checks are made in order, and the first that does not hold is reported.  *)
Check(holds, refusal) == [holds |-> holds, code |-> refusal]

Failing(checks) == {n \in DOMAIN checks : ~checks[n].holds}

SlipRefuse(checks) ==
  /\ Failing(checks) # {}
  /\ stage' = "refused"
  /\ UNCHANGED <<request, next, records, events, code>>

Refuse(checks) ==
  /\ Failing(checks) # {}
  /\ stage' = "refused"
  /\ code' = checks[Min(Failing(checks))].code
  /\ UNCHANGED <<request, next, records, events>>

(* What is checked of the manifests as wholes.                              *)
DeclarationChecks ==
  << Check(\A m \in {strategy, request.dataset, engine} : m.version = ContractMajor,
           "CONTRACT_VERSION_UNSUPPORTED"),
     Check(policy.sandbox >= strategy.sandbox, "SANDBOX_POLICY_DOWNGRADE"),
     Check(engine.support >= policy.support, "ENGINE_CAPABILITY_UNSUPPORTED"),
     Check(strategy.profiles \subseteq engine.profiles, "ENGINE_CAPABILITY_UNSUPPORTED"),
     Check(strategy.actions \subseteq engine.actions, "ENGINE_CAPABILITY_UNSUPPORTED") >>

RefuseDeclaration == stage = "declaration" /\ Refuse(DeclarationChecks)

AcceptDeclaration ==
  /\ stage = "declaration"
  /\ Failing(DeclarationChecks) = {}
  /\ stage' = "requirement"
  /\ UNCHANGED <<request, next, records, events, code>>

-----------------------------------------------------------------------------
Streams(stream_id) == {n \in DOMAIN streams : streams[n].stream_id = stream_id}
FindStream(stream_id) == streams[Min(Streams(stream_id))]

SlipCanResample(source, target) ==
  /\ source.mode = "bar" /\ target.mode = "bar"
  /\ source.grid = target.grid
  /\ 0 < source.interval /\ source.interval < target.interval

(* _can_resample                                                            *)
CanResampleStream(source, target) ==
  /\ source.mode = "bar" /\ target.mode = "bar"
  /\ source.grid = target.grid
  /\ 0 < source.interval /\ source.interval < target.interval
  /\ target.interval % source.interval = 0

(* The part of the policy's mapping that is about this stream and the       *)
(* required symbols.                                                        *)
RelevantMapping(stream, symbols) ==
  Restrict(policy.mapping,
           {s \in DOMAIN policy.mapping : s \in stream.symbols /\ policy.mapping[s] \in symbols})

(* _symbol_mapping finds one.                                               *)
MappingValid(stream, symbols) ==
  LET mapping == RelevantMapping(stream, symbols)
  IN /\ "symbol.map.v1" \in policy.transformations
     /\ DOMAIN policy.mapping # {}
     /\ IsInjective(mapping)
     /\ Range(mapping) \cap stream.symbols = {}
     /\ symbols \ stream.symbols \subseteq Range(mapping)

MustMap(requirement, stream) == ~ requirement.symbols \subseteq stream.symbols
MustResample(requirement, stream) == stream.timeframe # requirement.timeframe

SlipResampleAllowed(stream, timeframe) ==
  /\ "bar.resample.v1" \in policy.transformations
  /\ CanResampleStream(stream.timeframe, timeframe)

ResampleAllowed(stream, timeframe) ==
  /\ "bar.resample.v1" \in policy.transformations
  /\ policy.allow_lossy
  /\ CanResampleStream(stream.timeframe, timeframe)

(* The loop body, for one data requirement.  The first check makes the      *)
(* stream of the others defined.                                            *)
RequirementChecks(requirement) ==
  IF Streams(requirement.stream_id) = {}
  THEN << Check(FALSE, "DATA_STREAM_MISSING") >>
  ELSE LET stream == FindStream(requirement.stream_id)
       IN << Check(requirement.kind \in engine.data_kinds, "ENGINE_CAPABILITY_UNSUPPORTED"),
             Check(stream.kind = requirement.kind, "DATA_STREAM_MISSING"),
             Check(requirement.fields \subseteq stream.fields, "DATA_FIELD_MISSING"),
             Check(MustMap(requirement, stream) => MappingValid(stream, requirement.symbols),
                   "SYMBOL_MAPPING_FAILED"),
             Check(MustResample(requirement, stream)
                     => ResampleAllowed(stream, requirement.timeframe),
                   "DATA_TIMEFRAME_MISMATCH") >>

MapRecord(requirement, stream) ==
  [result |-> "TRANSFORMED_LOSSLESS", transformation_id |-> "symbol.map.v1",
   stream_id |-> stream.stream_id,
   mapping |-> RelevantMapping(stream, requirement.symbols)]

ResampleRecord(requirement, stream) ==
  [result |-> "TRANSFORMED_LOSSY", transformation_id |-> "bar.resample.v1",
   stream_id |-> stream.stream_id, target_interval |-> requirement.timeframe.interval]

ExactRecord(stream) ==
  [result |-> "EXACT", transformation_id |-> "none", stream_id |-> stream.stream_id]

RecordsFor(requirement, stream) ==
  LET mapped    == IF MustMap(requirement, stream)
                   THEN <<MapRecord(requirement, stream)>> ELSE <<>>
      resampled == IF MustResample(requirement, stream)
                   THEN <<ResampleRecord(requirement, stream)>> ELSE <<>>
      transforming == mapped \o resampled
  IN IF transforming = <<>> THEN <<ExactRecord(stream)>> ELSE transforming

Current == strategy.requirements[next]
AllCompiled == next > Len(strategy.requirements)

RefuseRequirement ==
  stage = "requirement" /\ ~AllCompiled /\ Refuse(RequirementChecks(Current))

AcceptRequirement ==
  /\ stage = "requirement" /\ ~AllCompiled
  /\ Failing(RequirementChecks(Current)) = {}
  /\ records' = records \o RecordsFor(Current, FindStream(Current.stream_id))
  /\ next' = next + 1
  /\ UNCHANGED <<request, stage, events, code>>

SandboxChecks == << Check(policy.sandbox \in engine.sandbox_modes, "SANDBOX_UNAVAILABLE") >>

RefuseSandbox == stage = "requirement" /\ AllCompiled /\ Refuse(SandboxChecks)

Plan ==
  /\ stage = "requirement" /\ AllCompiled
  /\ Failing(SandboxChecks) = {}
  /\ stage' = "planned"
  /\ next' = 1
  /\ UNCHANGED <<request, records, events, code>>

-----------------------------------------------------------------------------
(* apply_compatibility_plan.                                                *)
Apply ==
  /\ stage = "planned" /\ next \in DOMAIN records
  /\ Applicable(records[next], events)
  /\ events' = Applied(records[next], events)
  /\ next' = next + 1
  /\ UNCHANGED <<request, stage, records, code>>

ApplyFails ==
  /\ stage = "planned" /\ next \in DOMAIN records
  /\ ~Applicable(records[next], events)
  /\ stage' = "failed"
  /\ code' = "COMPATIBILITY_TRANSFORM_FAILED"
  /\ UNCHANGED <<request, next, records, events>>

Deliver ==
  /\ stage = "planned" /\ next \notin DOMAIN records
  /\ stage' = "delivered"
  /\ UNCHANGED <<request, next, records, events, code>>

Ended == stage \in {"delivered", "refused", "failed"} /\ UNCHANGED vars

Next ==
  \/ RefuseDeclaration \/ AcceptDeclaration
  \/ RefuseRequirement \/ AcceptRequirement
  \/ RefuseSandbox \/ Plan
  \/ Apply \/ ApplyFails \/ Deliver
  \/ Ended

Spec == Init /\ [][Next]_vars
=============================================================================
