----------------------- MODULE CompilerProperties_proofs -----------------------
(***************************************************************************)
(* Proofs about compile_run, for any requests: any number of streams and   *)
(* requirements, any symbols, mappings and timeframes.                     *)
(***************************************************************************)
EXTENDS CompilerProperties, SumTheorems

(* Checks hold one by one when none of them fails.                          *)
LEMMA FiveHold ==
  ASSUME NEW a, NEW b, NEW c, NEW d, NEW e
  PROVE  Failing(<<a, b, c, d, e>>) = {} <=>
            a.holds /\ b.holds /\ c.holds /\ d.holds /\ e.holds
<1> DEFINE checks == <<a, b, c, d, e>>
<1>1. /\ DOMAIN checks = 1..5
      /\ checks[1] = a /\ checks[2] = b /\ checks[3] = c /\ checks[4] = d /\ checks[5] = e
  OBVIOUS
<1> HIDE DEF checks
<1>2. Failing(checks) = {} <=> \A n \in 1..5 : checks[n].holds
  BY <1>1 DEF Failing
<1>3. (\A n \in 1..5 : checks[n].holds) <=>
         checks[1].holds /\ checks[2].holds /\ checks[3].holds /\ checks[4].holds /\ checks[5].holds
  <2>1. \A n \in 1..5 : n = 1 \/ n = 2 \/ n = 3 \/ n = 4 \/ n = 5
    OBVIOUS
  <2>2. QED
    BY <2>1
<1>4. QED
  BY <1>1, <1>2, <1>3 DEF checks

LEMMA OneHolds ==
  ASSUME NEW a
  PROVE  Failing(<<a>>) = {} <=> a.holds
BY DEF Failing

LEMMA Checked ==
  ASSUME NEW holds \in BOOLEAN, NEW refusal
  PROVE  Check(holds, refusal).holds <=> holds
BY DEF Check

(* The declarations of the manifests, apart from the requirements and the   *)
(* sandbox of the engine.                                                   *)
DeclarationsFit ==
  /\ \A m \in {strategy, request.dataset, engine} : m.version = ContractMajor
  /\ strategy.sandbox <= policy.sandbox
  /\ policy.support <= engine.support
  /\ strategy.profiles \subseteq engine.profiles
  /\ strategy.actions \subseteq engine.actions

LEMMA DeclarationChecked ==
  ASSUME request \in Requests
  PROVE  Failing(DeclarationChecks) = {} <=> DeclarationsFit
<1> DEFINE c1 == \A m \in {strategy, request.dataset, engine} : m.version = ContractMajor
           c2 == policy.sandbox >= strategy.sandbox
           c3 == engine.support >= policy.support
           c4 == strategy.profiles \subseteq engine.profiles
           c5 == strategy.actions \subseteq engine.actions
<1>1. Failing(DeclarationChecks) = {} <=> c1 /\ c2 /\ c3 /\ c4 /\ c5
  <2>1. c1 \in BOOLEAN /\ c2 \in BOOLEAN /\ c3 \in BOOLEAN /\ c4 \in BOOLEAN /\ c5 \in BOOLEAN
    OBVIOUS
  <2>2. DeclarationChecks =
          << Check(c1, "CONTRACT_VERSION_UNSUPPORTED"), Check(c2, "SANDBOX_POLICY_DOWNGRADE"),
             Check(c3, "ENGINE_CAPABILITY_UNSUPPORTED"), Check(c4, "ENGINE_CAPABILITY_UNSUPPORTED"),
             Check(c5, "ENGINE_CAPABILITY_UNSUPPORTED") >>
    BY DEF DeclarationChecks
  <2> HIDE DEF c1, c2, c3, c4, c5
  <2>3. QED
    BY <2>1, <2>2, FiveHold, Checked
<1>2. c2 <=> strategy.sandbox <= policy.sandbox
  BY RequestsAssumption DEF strategy, policy
<1>3. c3 <=> policy.support <= engine.support
  BY RequestsAssumption DEF engine, policy
<1>4. QED
  BY <1>1, <1>2, <1>3 DEF DeclarationsFit

-----------------------------------------------------------------------------
(* _find_stream: the first stream of a name is the least of its numbers.    *)
Before == OpToRel(<, Nat)

LEMMA LeastNumber ==
  ASSUME NEW S \in SUBSET Nat, S # {}
  PROVE  Min(S) \in S /\ \A m \in S : Min(S) <= m
<1>1. IsWellFoundedOn(Before, Nat)
  BY NatLessThanWellFounded DEF Before
<1>2. PICK x \in S : \A y \in S : ~(<<y, x>> \in Before)
  BY <1>1, WFMin
<1>3. ASSUME NEW y \in S PROVE x <= y
  <2>1. y < x => <<y, x>> \in Before
    BY DEF Before, OpToRel
  <2>2. QED
    BY <1>2, <2>1
<1>4. QED
  BY <1>3 DEF Min

FirstNamed(n, stream_id) ==
  /\ n \in DOMAIN streams /\ streams[n].stream_id = stream_id
  /\ \A m \in 1 .. n - 1 : streams[m].stream_id # stream_id

LEMMA FirstFound ==
  ASSUME request \in Requests, NEW stream_id
  PROVE  /\ Streams(stream_id) # {} => FirstNamed(Min(Streams(stream_id)), stream_id)
         /\ \A n : FirstNamed(n, stream_id) =>
               Streams(stream_id) # {} /\ FindStream(stream_id) = streams[n]
<1> DEFINE S == Streams(stream_id)
<1>1. DOMAIN streams = 1 .. Len(streams) /\ Len(streams) \in Nat
  BY RequestsAssumption DEF Tuple, streams
<1>2. S \in SUBSET Nat /\ \A n : n \in S <=> n \in 1 .. Len(streams) /\ streams[n].stream_id = stream_id
  BY <1>1 DEF Streams
<1>3. S # {} => Min(S) \in S /\ \A m \in S : Min(S) <= m
  BY <1>2, LeastNumber
<1>4. ASSUME S # {} PROVE FirstNamed(Min(S), stream_id)
  <2>1. \A m \in 1 .. Min(S) - 1 : m \in 1 .. Len(streams) /\ m < Min(S)
    BY <1>2, <1>3, <1>4
  <2>2. QED
    BY <1>1, <1>2, <1>3, <1>4, <2>1 DEF FirstNamed
<1>5. ASSUME NEW n, FirstNamed(n, stream_id)
      PROVE  S # {} /\ FindStream(stream_id) = streams[n]
  <2>1. n \in S /\ n \in Nat
    BY <1>1, <1>2, <1>5 DEF FirstNamed
  <2>2. Min(S) \in Nat /\ Min(S) >= 1 /\ streams[Min(S)].stream_id = stream_id /\ Min(S) <= n
    BY <1>2, <1>3, <2>1
  <2>3. Min(S) = n
    BY <1>5, <2>1, <2>2 DEF FirstNamed
  <2>4. QED
    BY <2>1, <2>3 DEF FindStream
<1>6. QED
  BY <1>4, <1>5

-----------------------------------------------------------------------------
(* _symbol_mapping and _can_resample, as what they are for.                 *)
LEMMA MappingFits ==
  ASSUME NEW requirement, NEW stream
  PROVE  (MustMap(requirement, stream) => MappingValid(stream, requirement.symbols)) <=>
           /\ \A symbol \in requirement.symbols : Provided(symbol, stream)
           /\ requirement.symbols \subseteq stream.symbols \/ Reversible(requirement, stream)
<1> DEFINE relevant == {s \in DOMAIN policy.mapping :
                          s \in stream.symbols /\ policy.mapping[s] \in requirement.symbols}
           mapping == RelevantMapping(stream, requirement.symbols)
<1>1. DOMAIN mapping = relevant /\ \A s \in relevant : mapping[s] = policy.mapping[s]
  BY DEF RelevantMapping, Restrict
<1>2. IsInjective(mapping) <=>
        \A s, t \in relevant : policy.mapping[s] = policy.mapping[t] => s = t
  BY <1>1 DEF IsInjective
<1>3. Range(mapping) = {policy.mapping[s] : s \in relevant}
  BY <1>1 DEF Range
<1>4. MappingValid(stream, requirement.symbols) <=>
        /\ "symbol.map.v1" \in policy.transformations
        /\ DOMAIN policy.mapping # {}
        /\ \A s, t \in relevant : policy.mapping[s] = policy.mapping[t] => s = t
        /\ \A s \in relevant : policy.mapping[s] \notin stream.symbols
        /\ \A symbol \in requirement.symbols \ stream.symbols :
              \E s \in relevant : policy.mapping[s] = symbol
  BY <1>2, <1>3 DEF MappingValid
<1>5. Reversible(requirement, stream) <=>
        \A s \in relevant : /\ policy.mapping[s] \notin stream.symbols
                            /\ \A t \in relevant \ {s} : policy.mapping[t] # policy.mapping[s]
  BY DEF Reversible
<1>6. \A symbol \in requirement.symbols :
         Provided(symbol, stream) <=>
           \/ symbol \in stream.symbols
           \/ /\ "symbol.map.v1" \in policy.transformations
              /\ \E s \in relevant : policy.mapping[s] = symbol
  BY DEF Provided
<1>7. MustMap(requirement, stream) <=> \E symbol \in requirement.symbols : symbol \notin stream.symbols
  BY DEF MustMap
<1> HIDE DEF mapping
<1>8. CASE MustMap(requirement, stream)
  <2>1. PICK symbol \in requirement.symbols : symbol \notin stream.symbols
    BY <1>7, <1>8
  <2>2. QED
    BY <1>4, <1>5, <1>6, <1>8, <2>1
<1>9. CASE ~MustMap(requirement, stream)
  BY <1>6, <1>7, <1>9
<1>10. QED
  BY <1>8, <1>9

LEMMA Multiple ==
  ASSUME NEW a \in Nat, NEW b \in Nat
  PROVE  0 < a /\ a < b /\ b % a = 0 <=> \E n \in 2 .. b : b = n * a
<1>1. ASSUME 0 < a, a < b, b % a = 0 PROVE \E n \in 2 .. b : b = n * a
  <2>1. b = a * (b \div a) + (b % a) /\ b \div a \in Int
    BY <1>1
  <2>2. b = (b \div a) * a
    BY <1>1, <2>1
  <2>3. b \div a \in 2 .. b
    BY <1>1, <2>1, <2>2
  <2>4. QED
    BY <2>2, <2>3
<1>2. ASSUME NEW n \in 2 .. b, b = n * a PROVE 0 < a /\ a < b /\ b % a = 0
  <2>1. 0 < a
    BY <1>2
  <2>2. a < b
    BY <1>2, <2>1
  <2>3. b % a = 0
    BY <1>2, <2>1
  <2>4. QED
    BY <2>1, <2>2, <2>3
<1>3. QED
  BY <1>1, <1>2

LEMMA TimeframeFits ==
  ASSUME NEW requirement, NEW stream,
         requirement.timeframe.interval \in Nat, stream.timeframe.interval \in Nat
  PROVE  (MustResample(requirement, stream) => ResampleAllowed(stream, requirement.timeframe)) <=>
           Reachable(stream.timeframe, requirement.timeframe, policy.transformations)
BY Multiple DEF MustResample, ResampleAllowed, CanResampleStream, Reachable

-----------------------------------------------------------------------------
(* The checks of a requirement hold exactly when the requirement fits.      *)
LEMMA RequirementChecked ==
  ASSUME request \in Requests, NEW k \in DOMAIN strategy.requirements
  PROVE  Failing(RequirementChecks(strategy.requirements[k])) = {} <=>
           Fits(strategy.requirements[k])
<1>1. PICK requirement : requirement = strategy.requirements[k]
  OBVIOUS
<1>2. requirement.timeframe.interval \in Nat
  BY <1>1, RequestsAssumption DEF strategy
<1>3. CASE Streams(requirement.stream_id) = {}
  <2>1. ~Fits(requirement)
    BY <1>3 DEF Fits, Streams
  <2>2. RequirementChecks(requirement) = << Check(FALSE, "DATA_STREAM_MISSING") >>
    BY <1>3 DEF RequirementChecks
  <2>3. ~Check(FALSE, "DATA_STREAM_MISSING").holds
    BY DEF Check
  <2>4. Failing(RequirementChecks(requirement)) # {}
    BY <2>2, <2>3, OneHolds
  <2>5. QED
    BY <1>1, <2>1, <2>4
<1>4. CASE Streams(requirement.stream_id) # {}
  <2>1. PICK n : FirstNamed(n, requirement.stream_id)
    BY <1>4, FirstFound
  <2>2. PICK stream : stream = streams[n]
    OBVIOUS
  <2>3. stream = FindStream(requirement.stream_id)
    BY <2>1, <2>2, FirstFound
  <2>4. \A m : FirstNamed(m, requirement.stream_id) => streams[m] = stream
    BY <2>3, FirstFound
  <2>5. Fits(requirement) <=>
          /\ requirement.kind = stream.kind /\ stream.kind \in engine.data_kinds
          /\ requirement.fields \subseteq stream.fields
          /\ \A symbol \in requirement.symbols : Provided(symbol, stream)
          /\ requirement.symbols \subseteq stream.symbols \/ Reversible(requirement, stream)
          /\ Reachable(stream.timeframe, requirement.timeframe, policy.transformations)
    BY <2>1, <2>2, <2>4 DEF Fits, FirstNamed
  <2>6. stream.timeframe.interval \in Nat
    BY <2>1, <2>2, RequestsAssumption DEF FirstNamed, streams
  <2> DEFINE c1 == requirement.kind \in engine.data_kinds
             c2 == stream.kind = requirement.kind
             c3 == requirement.fields \subseteq stream.fields
             c4 == MustMap(requirement, stream) => MappingValid(stream, requirement.symbols)
             c5 == MustResample(requirement, stream)
                     => ResampleAllowed(stream, requirement.timeframe)
  <2>7. c4 <=> /\ \A symbol \in requirement.symbols : Provided(symbol, stream)
               /\ requirement.symbols \subseteq stream.symbols \/ Reversible(requirement, stream)
    BY MappingFits
  <2>8. c5 <=> Reachable(stream.timeframe, requirement.timeframe, policy.transformations)
    BY <1>2, <2>6, TimeframeFits
  <2>9. RequirementChecks(requirement) =
          << Check(c1, "ENGINE_CAPABILITY_UNSUPPORTED"), Check(c2, "DATA_STREAM_MISSING"),
             Check(c3, "DATA_FIELD_MISSING"), Check(c4, "SYMBOL_MAPPING_FAILED"),
             Check(c5, "DATA_TIMEFRAME_MISMATCH") >>
    BY <1>4, <2>3 DEF RequirementChecks
  <2>10. c1 \in BOOLEAN /\ c2 \in BOOLEAN /\ c3 \in BOOLEAN /\ c4 \in BOOLEAN /\ c5 \in BOOLEAN
    OBVIOUS
  <2>11. Fits(requirement) <=> c1 /\ c2 /\ c3 /\ c4 /\ c5
    BY <2>5, <2>7, <2>8
  <2> HIDE DEF c1, c2, c3, c4, c5
  <2>12. Failing(RequirementChecks(requirement)) = {} <=> c1 /\ c2 /\ c3 /\ c4 /\ c5
    BY <2>9, <2>10, FiveHold, Checked
  <2>13. QED
    BY <1>1, <2>11, <2>12
<1>5. QED
  BY <1>3, <1>4

LEMMA SandboxChecked ==
  Failing(SandboxChecks) = {} <=> policy.sandbox \in engine.sandbox_modes
<1> DEFINE c == policy.sandbox \in engine.sandbox_modes
<1>1. SandboxChecks = << Check(c, "SANDBOX_UNAVAILABLE") >> /\ c \in BOOLEAN
  BY DEF SandboxChecks
<1> HIDE DEF c
<1>2. Failing(SandboxChecks) = {} <=> c
  BY <1>1, OneHolds, Checked
<1>3. QED
  BY <1>2 DEF c

-----------------------------------------------------------------------------
(* What is known of a request at each stage of its compilation.             *)
CompileInv ==
  /\ request \in Requests
  /\ stage \in {"declaration", "requirement", "planned", "delivered", "refused", "failed"}
  /\ next \in Nat \ {0}
  /\ stage = "declaration" => next = 1
  /\ stage = "requirement" =>
       /\ DeclarationsFit
       /\ \A k \in DOMAIN strategy.requirements :
            k < next => Fits(strategy.requirements[k])
  /\ RefusedIffUnfit

LEMMA CompileStart == Init => CompileInv
BY DEF Init, CompileInv, RefusedIffUnfit

LEMMA CompileStep == CompileInv /\ [Next]_vars => CompileInv'
<1> SUFFICES ASSUME CompileInv, [Next]_vars PROVE CompileInv'
  OBVIOUS
<1> DEFINE reqs == strategy.requirements
<1>1. /\ request \in Requests /\ next \in Nat \ {0}
      /\ DOMAIN reqs = 1 .. Len(reqs) /\ Len(reqs) \in Nat
  BY RequestsAssumption DEF CompileInv, Tuple, strategy
<1>2. Fit <=> /\ DeclarationsFit
              /\ policy.sandbox \in engine.sandbox_modes
              /\ \A k \in DOMAIN reqs : Fits(reqs[k])
  BY DEF Fit, DeclarationsFit
<1>3. ASSUME request' = request
      PROVE  Fit' = Fit /\ DeclarationsFit' = DeclarationsFit /\ \A r : Fits(r)' = Fits(r)
  BY <1>3
  DEF Fit, DeclarationsFit, Fits, Provided, Reversible, Reachable, strategy, policy, engine, streams
<1>4. CASE RefuseDeclaration
  <2>1. stage = "declaration" /\ Failing(DeclarationChecks) # {}
    BY <1>4 DEF RefuseDeclaration, Refuse
  <2>2. ~Fit
    BY <1>1, <1>2, <2>1, DeclarationChecked
  <2>3. stage' = "refused" /\ request' = request /\ next' = next
    BY <1>4 DEF RefuseDeclaration, Refuse
  <2>4. QED
    BY <1>1, <1>3, <2>2, <2>3 DEF CompileInv, RefusedIffUnfit
<1>5. CASE AcceptDeclaration
  <2>1. stage = "declaration" /\ DeclarationsFit
    BY <1>1, <1>5, DeclarationChecked DEF AcceptDeclaration
  <2>2. stage' = "requirement" /\ request' = request /\ next' = next /\ next = 1
    BY <1>5, <2>1 DEF AcceptDeclaration, CompileInv
  <2>3. \A k \in DOMAIN reqs : ~(k < 1)
    BY <1>1
  <2>4. DOMAIN reqs' = DOMAIN reqs
    BY <2>2 DEF strategy
  <2>5. QED
    BY <1>1, <1>3, <2>1, <2>2, <2>3, <2>4 DEF CompileInv, RefusedIffUnfit
<1>6. CASE RefuseRequirement
  <2>1. /\ stage = "requirement" /\ next \in DOMAIN reqs
        /\ Failing(RequirementChecks(reqs[next])) # {}
    BY <1>1, <1>6 DEF RefuseRequirement, AllCompiled, Refuse, Current
  <2>2. ~Fit
    BY <1>1, <1>2, <2>1, RequirementChecked
  <2>3. stage' = "refused" /\ request' = request /\ next' = next
    BY <1>6 DEF RefuseRequirement, Refuse
  <2>4. QED
    BY <1>1, <1>3, <2>2, <2>3 DEF CompileInv, RefusedIffUnfit
<1>7. CASE AcceptRequirement
  <2>1. /\ stage = "requirement" /\ next \in DOMAIN reqs
        /\ Failing(RequirementChecks(reqs[next])) = {}
    BY <1>1, <1>7 DEF AcceptRequirement, AllCompiled, Current
  <2>2. Fits(reqs[next])
    BY <1>1, <2>1, RequirementChecked
  <2>3. stage' = stage /\ request' = request /\ next' = next + 1
    BY <1>7 DEF AcceptRequirement
  <2>4. \A k \in DOMAIN reqs : k < next + 1 => k < next \/ k = next
    BY <1>1
  <2>5. \A k \in DOMAIN reqs : k < next + 1 => Fits(reqs[k])
    BY <2>1, <2>2, <2>4 DEF CompileInv
  <2>6. reqs' = reqs
    BY <2>3 DEF strategy
  <2>7. QED
    BY <1>1, <1>3, <2>1, <2>3, <2>5, <2>6 DEF CompileInv, RefusedIffUnfit
<1>8. CASE RefuseSandbox
  <2>1. ~Fit
    BY <1>2, <1>8, SandboxChecked DEF RefuseSandbox, Refuse
  <2>2. stage' = "refused" /\ request' = request /\ next' = next
    BY <1>8 DEF RefuseSandbox, Refuse
  <2>3. QED
    BY <1>1, <1>3, <2>1, <2>2 DEF CompileInv, RefusedIffUnfit
<1>9. CASE Plan
  <2>1. stage = "requirement" /\ next > Len(reqs) /\ policy.sandbox \in engine.sandbox_modes
    BY <1>9, SandboxChecked DEF Plan, AllCompiled
  <2>2. \A k \in DOMAIN reqs : k < next
    BY <1>1, <2>1
  <2>3. Fit
    BY <1>2, <2>1, <2>2 DEF CompileInv
  <2>4. stage' = "planned" /\ request' = request /\ next' = 1
    BY <1>9 DEF Plan
  <2>5. QED
    BY <1>1, <1>3, <2>3, <2>4 DEF CompileInv, RefusedIffUnfit
<1>10. CASE Apply \/ ApplyFails \/ Deliver
  <2>1. /\ stage = "planned" /\ request' = request
        /\ next' \in {next, next + 1} /\ stage' \in {"planned", "failed", "delivered"}
    BY <1>10 DEF Apply, ApplyFails, Deliver
  <2>2. Fit /\ next' \in Nat \ {0}
    BY <1>1, <2>1 DEF CompileInv, RefusedIffUnfit
  <2>3. QED
    BY <1>1, <1>3, <2>1, <2>2 DEF CompileInv, RefusedIffUnfit
<1>11. CASE UNCHANGED vars
  <2>1. request' = request /\ stage' = stage /\ next' = next /\ reqs' = reqs
    BY <1>11 DEF vars, strategy
  <2>2. QED
    BY <1>1, <1>3, <2>1 DEF CompileInv, RefusedIffUnfit
<1>12. QED
  BY <1>4, <1>5, <1>6, <1>7, <1>8, <1>9, <1>10, <1>11 DEF Next, Ended

(* compile_run refuses exactly the requests that do not fit, for any        *)
(* requests: no order of the checks, no requirement that was transformed    *)
(* before and no second stream of a name lets one through or keeps one out  *)
(* (compiler.py:115-371).                                                   *)
THEOREM RefusesTheUnfit == Spec => []RefusedIffUnfit
<1>1. CompileInv => RefusedIffUnfit
  BY DEF CompileInv
<1>2. QED
  BY <1>1, CompileStart, CompileStep, PTL DEF Spec

(* In a finite set with a strict total order there is, for each number, one *)
(* element with that many before it.  before[x] is the set of those before  *)
(* x.                                                                       *)
Ranking(S, before) ==
  /\ before \in [S -> SUBSET S]
  /\ \A x \in S : x \notin before[x]
  /\ \A x \in S : \A y \in before[x] : before[y] \subseteq before[x]
  /\ \A x, y \in S : x = y \/ x \in before[y] \/ y \in before[x]

(* Every rank below the size of the set is taken, by one member, and ranks  *)
(* follow the order.                                                        *)
LEMMA Ranked ==
  ASSUME NEW S, IsFiniteSet(S), NEW before, Ranking(S, before)
  PROVE  /\ \A n \in 1 .. Cardinality(S) : \E x \in S : Cardinality(before[x]) = n - 1
         /\ \A x, y \in S : Cardinality(before[x]) < Cardinality(before[y]) => x \in before[y]
         /\ \A x, y \in S : Cardinality(before[x]) = Cardinality(before[y]) => x = y
<1> DEFINE N == Cardinality(S)
           rank == [x \in S |-> Cardinality(before[x])]
<1>1. N \in Nat
  BY FS_CardinalityType
<1>2. ASSUME NEW x \in S
      PROVE  IsFiniteSet(before[x]) /\ rank[x] \in Nat /\ rank[x] < N
  <2>1. before[x] \in SUBSET S /\ x \notin before[x]
    BY DEF Ranking
  <2>2. /\ IsFiniteSet(before[x])
        /\ Cardinality(before[x]) <= N
        /\ N = Cardinality(before[x]) => S = before[x]
    BY <2>1, FS_Subset
  <2>3. Cardinality(before[x]) \in Nat
    BY <2>2, FS_CardinalityType
  <2>4. QED
    BY <1>1, <2>1, <2>2, <2>3
<1>3. ASSUME NEW y \in S, NEW x \in before[y] PROVE rank[x] < rank[y]
  <2>1. x \in S /\ before[x] \in SUBSET before[y] /\ x \notin before[x]
    BY DEF Ranking
  <2>2. /\ Cardinality(before[x]) <= Cardinality(before[y])
        /\ Cardinality(before[y]) = Cardinality(before[x]) => before[y] = before[x]
    BY <1>2, <2>1, FS_Subset
  <2>3. rank[x] # rank[y]
    BY <2>1, <2>2
  <2>4. QED
    BY <1>2, <2>1, <2>2, <2>3
<1>4. ASSUME NEW x \in S, NEW y \in S
      PROVE  /\ rank[x] = rank[y] => x = y
             /\ rank[x] < rank[y] => x \in before[y]
  <2>1. x = y \/ x \in before[y] \/ y \in before[x]
    BY DEF Ranking
  <2>2. rank[x] \in Nat /\ rank[y] \in Nat
    BY <1>2
  <2>3. x \in before[y] => rank[x] < rank[y]
    BY <1>3
  <2>4. y \in before[x] => rank[y] < rank[x]
    BY <1>3
  <2> HIDE DEF rank
  <2>5. QED
    BY <2>1, <2>2, <2>3, <2>4
<1>5. rank \in Surjection(S, 0 .. N - 1)
  <2>1. /\ IsFiniteSet(0 .. N - 1)
        /\ Cardinality(0 .. N - 1) = IF 0 > N - 1 THEN 0 ELSE N - 1 - 0 + 1
    BY <1>1, FS_Interval
  <2>2. Cardinality(0 .. N - 1) = N
    BY <1>1, <2>1
  <2>3. rank \in [S -> 0 .. N - 1]
    <3>1. \A x \in S : rank[x] \in 0 .. N - 1
      BY <1>1, <1>2
    <3>2. QED
      BY <3>1
  <2> HIDE DEF rank
  <2>4. rank \in Injection(S, 0 .. N - 1)
    BY <1>4, <2>3 DEF Injection, IsInjective
  <2>5. QED
    BY <2>1, <2>2, <2>4, FS_Injection
<1>6. ASSUME NEW n \in 1 .. N PROVE \E x \in S : rank[x] = n - 1
  <2>1. n - 1 \in 0 .. N - 1
    BY <1>1
  <2> HIDE DEF rank
  <2>2. QED
    BY <1>5, <2>1 DEF Surjection
<1>7. QED
  BY <1>4, <1>6

(* The positions that Python's sort puts before a position.                 *)
Ahead(tuple, P) == [n \in P |-> {m \in P : Precedes(tuple, m, n)}]

LEMMA PositionsRanked ==
  ASSUME NEW tuple \in Seq(Event), NEW P \in SUBSET DOMAIN tuple
  PROVE  IsFiniteSet(P) /\ Cardinality(P) \in Nat /\ Ranking(P, Ahead(tuple, P))
<1> DEFINE N == Len(tuple)
<1>0. N \in Nat /\ DOMAIN tuple = 1 .. N
  OBVIOUS
<1>1. IsFiniteSet(P) /\ Cardinality(P) \in Nat
  <2>1. IsFiniteSet(1 .. N)
    BY <1>0, FS_Interval
  <2>2. QED
    BY <1>0, <2>1, FS_Subset, FS_CardinalityType
<1>2. \A n \in P : n \in Int /\ tuple[n].available_time \in Int /\ tuple[n].sequence \in Int
  <2>1. \A e \in Event : e.available_time \in Int /\ e.sequence \in Int
    BY DEF Event
  <2>2. QED
    BY <1>0, <2>1
<1>3. ASSUME NEW x \in P PROVE ~Precedes(tuple, x, x)
  BY <1>2 DEF Precedes, Earlier
<1>4. ASSUME NEW x \in P, NEW y \in P, NEW z \in P, Precedes(tuple, x, y), Precedes(tuple, y, z)
      PROVE  Precedes(tuple, x, z)
  BY <1>2, <1>4 DEF Precedes, Earlier
<1>5. ASSUME NEW x \in P, NEW y \in P
      PROVE  x = y \/ Precedes(tuple, x, y) \/ Precedes(tuple, y, x)
  <2>1. x < y \/ x = y \/ y < x
    BY <1>2
  <2>2. QED
    BY <2>1 DEF Precedes
<1>6. QED
  BY <1>1, <1>3, <1>4, <1>5 DEF Ranking, Ahead

(* Python's sort: every position once, and in order.                        *)
LEMMA OrderedIs ==
  ASSUME NEW tuple \in Seq(Event), NEW P \in SUBSET DOMAIN tuple
  PROVE  LET t == Ordered(tuple, P)
         IN /\ IsFiniteSet(P) /\ Cardinality(P) \in Nat /\ t \in Seq(Event)
            /\ DOMAIN t = 1 .. Cardinality(P) /\ Len(t) = Cardinality(P)
            /\ \E at \in [1 .. Cardinality(P) -> P] :
                 /\ \A k \in 1 .. Cardinality(P) : t[k] = tuple[at[k]]
                 /\ \A n \in P : \E k \in 1 .. Cardinality(P) : at[k] = n
                 /\ \A j, k \in 1 .. Cardinality(P) : j < k => Precedes(tuple, at[j], at[k])
<1> DEFINE N == Len(tuple)
           before == [n \in P |-> {m \in P : Precedes(tuple, m, n)}]
           C == Cardinality(P)
           at == [k \in 1 .. C |->
                    CHOOSE n \in P : Cardinality({m \in P : Precedes(tuple, m, n)}) = k - 1]
           t == Ordered(tuple, P)
<1>0. /\ N \in Nat /\ DOMAIN tuple = 1 .. N
      /\ \A n \in P : n \in Int /\ tuple[n] \in Event
  OBVIOUS
<1>1. IsFiniteSet(P) /\ C \in Nat
  <2>1. IsFiniteSet(1 .. N)
    BY <1>0, FS_Interval
  <2>2. IsFiniteSet(P)
    BY <1>0, <2>1, FS_Subset
  <2>3. QED
    BY <2>2, FS_CardinalityType
<1>2. Ranking(P, before)
  BY PositionsRanked DEF Ahead
<1>3. /\ \A k \in 1 .. C : \E n \in P : Cardinality(before[n]) = k - 1
      /\ \A m, n \in P : Cardinality(before[m]) < Cardinality(before[n]) => m \in before[n]
      /\ \A m, n \in P : Cardinality(before[m]) = Cardinality(before[n]) => m = n
  BY <1>1, <1>2, Ranked
<1>4. ASSUME NEW k \in 1 .. C PROVE at[k] \in P /\ Cardinality(before[at[k]]) = k - 1
  <2>1. \E n \in P : Cardinality({m \in P : Precedes(tuple, m, n)}) = k - 1
    BY <1>3
  <2>2. QED
    BY <2>1
<1>5. /\ t = [k \in 1 .. C |-> tuple[at[k]]]
      /\ DOMAIN t = 1 .. C /\ \A k \in 1 .. C : t[k] = tuple[at[k]]
  BY <1>1 DEF Ordered
<1>6. ASSUME NEW n \in P PROVE \E k \in 1 .. C : at[k] = n
  <2>1. before[n] \in SUBSET P /\ n \notin before[n]
    BY <1>2 DEF Ranking
  <2>2. /\ IsFiniteSet(before[n]) /\ Cardinality(before[n]) <= C
        /\ C = Cardinality(before[n]) => P = before[n]
    BY <1>1, <2>1, FS_Subset
  <2>3. Cardinality(before[n]) \in Nat /\ Cardinality(before[n]) # C
    BY <2>1, <2>2, FS_CardinalityType
  <2> DEFINE k == Cardinality(before[n]) + 1
  <2>4. k \in 1 .. C /\ Cardinality(before[n]) = k - 1
    BY <1>1, <2>2, <2>3
  <2> HIDE DEF k, at, before
  <2>5. at[k] = n
    BY <1>3, <1>4, <2>4
  <2>6. QED
    BY <2>4, <2>5
<1>7. ASSUME NEW j \in 1 .. C, NEW k \in 1 .. C, j < k
      PROVE  Precedes(tuple, at[j], at[k])
  <2>1. j - 1 < k - 1
    BY <1>1, <1>7
  <2>2. at[j] \in before[at[k]] /\ at[k] \in P
    <3> HIDE DEF at, before
    <3>1. QED
      BY <1>3, <1>4, <2>1
  <2>3. QED
    BY <2>2
<1>8. at \in [1 .. C -> P]
  BY <1>4
<1>9. t \in Seq(Event) /\ Len(t) = C
  <2> HIDE DEF at, t, C
  <2>1. \A k \in 1 .. C : tuple[at[k]] \in Event
    BY <1>0, <1>8
  <2>2. QED
    BY <1>1, <1>5, <2>1
<1> HIDE DEF at, t, C
<1>10. QED
  BY <1>1, <1>5, <1>6, <1>7, <1>8, <1>9 DEF t, C

(* The greatest and the least of finitely many numbers.                     *)
LEMMA Extremes ==
  ASSUME NEW N \in Nat \ {0}, NEW f \in [1 .. N -> Nat]
  PROVE  LET S == {f[k] : k \in 1 .. N}
         IN /\ Max(S) \in Nat /\ Min(S) \in Nat
            /\ Max(S) \in S /\ \A y \in S : y <= Max(S)
<1> DEFINE S == {f[k] : k \in 1 .. N}
           before == [x \in S |-> {y \in S : y < x}]
<1>1. S \in SUBSET Nat /\ S # {}
  OBVIOUS
<1>2. IsFiniteSet(S)
  <2>1. IsFiniteSet(1 .. N)
    BY FS_Interval
  <2>2. f \in Surjection(1 .. N, S)
    BY DEF Surjection
  <2> HIDE DEF S
  <2>3. QED
    BY <2>1, <2>2, FS_Surjection
<1>3. Ranking(S, before)
  <2> HIDE DEF S
  <2>1. \A x \in S : x \in Int
    BY <1>1
  <2>2. \A x, y \in S : x = y \/ x < y \/ y < x
    BY <2>1
  <2>3. \A x, y, z \in S : x < y /\ y < z => x < z
    BY <2>1
  <2>4. \A x \in S : ~(x < x)
    BY <2>1
  <2>5. QED
    BY <2>2, <2>3, <2>4 DEF Ranking
<1> HIDE DEF S
<1>4. PICK x \in S : \A y \in S : x >= y
  <2>1. Cardinality(S) \in Nat /\ Cardinality(S) # 0
    BY <1>1, <1>2, FS_CardinalityType, FS_EmptySet
  <2>2. Cardinality(S) \in 1 .. Cardinality(S)
    BY <2>1
  <2>3. PICK x \in S : Cardinality(before[x]) = Cardinality(S) - 1
    <3> HIDE DEF before
    <3>1. \A n \in 1 .. Cardinality(S) : \E x \in S : Cardinality(before[x]) = n - 1
      BY <1>2, <1>3, Ranked
    <3>2. QED
      BY <2>2, <3>1
  <2>4. ASSUME NEW y \in S PROVE x >= y
    <3>1. before[y] \in SUBSET S /\ y \notin before[y]
      BY <1>3 DEF Ranking
    <3>2. /\ IsFiniteSet(before[y]) /\ Cardinality(before[y]) <= Cardinality(S)
          /\ Cardinality(S) = Cardinality(before[y]) => S = before[y]
      BY <1>2, <3>1, FS_Subset
    <3>3. Cardinality(before[y]) \in Nat
      BY <3>2, FS_CardinalityType
    <3>4. Cardinality(before[y]) < Cardinality(S)
      BY <2>1, <3>1, <3>2, <3>3
    <3>5. Cardinality(before[y]) < Cardinality(before[x])
          \/ Cardinality(before[y]) = Cardinality(before[x])
      BY <2>1, <2>3, <3>3, <3>4
    <3>6. y = x \/ y \in before[x]
      <4> HIDE DEF before
      <4>1. QED
        BY <1>2, <1>3, <3>5, Ranked
    <3>7. QED
      BY <1>1, <3>6
  <2>5. QED
    BY <2>4
<1>5. PICK z \in S : \A y \in S : z <= y
  BY <1>1, LeastNumber
<1>6. QED
  <2>1. Max(S) \in S /\ \A y \in S : Max(S) >= y
    BY <1>4 DEF Max
  <2>2. Min(S) \in S
    BY <1>5 DEF Min
  <2>3. \A y \in S : y <= Max(S)
    BY <1>1, <2>1
  <2>4. QED
    BY <1>1, <2>1, <2>2, <2>3 DEF S

-----------------------------------------------------------------------------
(* resample_bars.                                                           *)
Keys(tuple, interval) == {Key(tuple[n], interval) : n \in DOMAIN tuple}
KeysBefore(tuple, interval) ==
  [k \in Keys(tuple, interval) |-> {l \in Keys(tuple, interval) : KeyBefore(l, k)}]

(* The end of an interval that closes at or after a time is not before the  *)
(* epoch.                                                                   *)
LEMMA BucketIs ==
  ASSUME NEW time \in Nat, NEW interval \in Nat \ {0}
  PROVE  (time - 1) \div interval \in Int /\ ((time - 1) \div interval + 1) * interval \in Nat
<1> DEFINE q == (time - 1) \div interval
           r == (time - 1) % interval
<1>1. q \in Int /\ r \in 0 .. interval - 1 /\ time - 1 = interval * q + r
  OBVIOUS
<1> HIDE DEF q, r
<1>2. (q + 1) * interval = interval * q + interval
  BY <1>1
<1>3. interval * q \in Int
  BY <1>1
<1>4. (q + 1) * interval = time - 1 - r + interval
  BY <1>1, <1>2, <1>3
<1>5. QED
  BY <1>1, <1>4 DEF q

(* Instrument and interval: finitely many keys, strictly and totally        *)
(* ordered.                                                                 *)
LEMMA KeysAre ==
  ASSUME NEW tuple \in Seq(Event), NEW interval \in Nat \ {0}
  PROVE  /\ IsFiniteSet(Keys(tuple, interval))
         /\ Ranking(Keys(tuple, interval), KeysBefore(tuple, interval))
<1> DEFINE N == Len(tuple)
           K == Keys(tuple, interval)
           f == [n \in 1 .. N |-> Key(tuple[n], interval)]
<1>1. N \in Nat /\ DOMAIN tuple = 1 .. N /\ \A n \in 1 .. N : tuple[n] \in Event
  OBVIOUS
<1>2. IsFiniteSet(K)
  <2>1. IsFiniteSet(1 .. N)
    BY <1>1, FS_Interval
  <2>2. f \in Surjection(1 .. N, K)
    BY <1>1 DEF Keys, Surjection
  <2> HIDE DEF f, K
  <2>3. QED
    BY <2>1, <2>2, FS_Surjection
<1>3. ASSUME NEW k \in K
      PROVE  k[1] \in DOMAIN InstrumentRank /\ k[2] \in Int /\ k = <<k[1], k[2]>>
  <2>1. PICK n \in 1 .. N : k = Key(tuple[n], interval)
    BY <1>1 DEF Keys
  <2>2. tuple[n].instrument_id \in DOMAIN InstrumentRank /\ tuple[n].event_time \in Nat
    BY <1>1 DEF Event
  <2>3. Bucket(tuple[n], interval) \in Int
    BY <2>2, BucketIs DEF Bucket
  <2>4. QED
    BY <2>1, <2>2, <2>3 DEF Key
<1>4. \A k, l \in K : KeyBefore(l, k) \in BOOLEAN
  BY DEF KeyBefore
<1>5. ASSUME NEW k \in K PROVE ~KeyBefore(k, k)
  BY <1>3, RankAssumption DEF KeyBefore
<1>6. ASSUME NEW j \in K, NEW k \in K, NEW l \in K, KeyBefore(j, k), KeyBefore(k, l)
      PROVE  KeyBefore(j, l)
  BY <1>3, <1>6, RankAssumption DEF KeyBefore
<1>7. ASSUME NEW k \in K, NEW l \in K PROVE k = l \/ KeyBefore(k, l) \/ KeyBefore(l, k)
  <2>1. CASE k[1] = l[1]
    <3>1. k[2] < l[2] \/ k[2] = l[2] \/ l[2] < k[2]
      BY <1>3
    <3>2. QED
      BY <1>3, <2>1, <3>1 DEF KeyBefore
  <2>2. CASE k[1] # l[1]
    <3>1. /\ InstrumentRank[k[1]] \in Nat /\ InstrumentRank[l[1]] \in Nat
          /\ InstrumentRank[k[1]] # InstrumentRank[l[1]]
      BY <1>3, <2>2, RankAssumption
    <3>2. QED
      BY <3>1 DEF KeyBefore
  <2>3. QED
    BY <2>1, <2>2
<1> HIDE DEF K
<1>8. Ranking(K, [k \in K |-> {l \in K : KeyBefore(l, k)}])
  BY <1>5, <1>6, <1>7 DEF Ranking
<1>9. QED
  BY <1>2, <1>8 DEF K, KeysBefore

(* Induction over the numbers, in the form of a least counterexample.       *)
LEMMA Inductive ==
  ASSUME NEW S, 0 \in S, \A k \in Nat : k \in S => k + 1 \in S
  PROVE  Nat \subseteq S
<1> DEFINE T == Nat \ S
<1> SUFFICES ASSUME T # {} PROVE FALSE
  OBVIOUS
<1>1. IsWellFoundedOn(Before, Nat)
  BY NatLessThanWellFounded DEF Before
<1>2. PICK k \in T : \A m \in T : ~(<<m, k>> \in Before)
  BY <1>1, WFMin
<1>3. k \in Nat /\ k # 0 /\ k - 1 \in Nat
  OBVIOUS
<1>4. k - 1 \in S
  <2>1. <<k - 1, k>> \in Before
    BY <1>3 DEF Before, OpToRel
  <2>2. QED
    BY <1>2, <1>3, <2>1
<1>5. QED
  BY <1>3, <1>4

(* The greatest number of a tuple's positions.                              *)
LEMMA GreatestNumber ==
  ASSUME NEW n \in Nat, NEW s \in SUBSET (1 .. n), s # {}
  PROVE  Max(s) \in s /\ \A m \in s : Max(s) >= m
<1> DEFINE T == {n - m : m \in s}
<1>1. T \subseteq Nat /\ T # {}
  <2>1. \A m \in s : m \in 1 .. n /\ n - m \in Nat
    OBVIOUS
  <2>2. PICK m \in s : TRUE
    OBVIOUS
  <2>3. n - m \in T
    BY <2>2
  <2>4. QED
    BY <2>1, <2>3
<1>2. IsWellFoundedOn(Before, Nat)
  BY NatLessThanWellFounded DEF Before
<1>3. PICK d \in T : \A e \in T : ~(<<e, d>> \in Before)
  BY <1>1, <1>2, WFMin
<1>4. PICK m \in s : d = n - m
  OBVIOUS
<1>5. ASSUME NEW k \in s PROVE m >= k
  <2>1. n - k \in T /\ n - k \in Nat /\ d \in Nat
    BY <1>1
  <2>2. ~(n - k < d)
    BY <1>3, <2>1 DEF Before, OpToRel
  <2>3. QED
    BY <1>4, <2>2
<1>6. QED
  BY <1>5 DEF Max

(* A fold over the first n elements of a tuple, one element at a time: the  *)
(* function over sets of positions that FoldLeft recurs over exists.        *)
Iterates(g, n, step, base, seq) ==
  \A s \in SUBSET (1 .. n) :
    g[s] = IF s = {} THEN base ELSE step[<<g[s \ {Max(s)}], seq[Max(s)]>>]

(* A fold over the first n elements exists, and stays in its set of         *)
(* values.                                                                  *)
LEMMA IterateExists ==
  ASSUME NEW V, NEW E, NEW step \in [V \X E -> V], NEW base \in V, NEW N \in Nat,
         NEW seq \in [1 .. N -> E]
  PROVE  \A n \in Nat : n <= N => \E g \in [SUBSET (1 .. n) -> V] : Iterates(g, n, step, base, seq)
<1> DEFINE Exists(n) == \E g \in [SUBSET (1 .. n) -> V] : Iterates(g, n, step, base, seq)
           S == {n \in Nat : n <= N => Exists(n)}
<1>1. Exists(0)
  <2> DEFINE g == [s \in SUBSET (1 .. 0) |-> base]
  <2>1. \A s \in SUBSET (1 .. 0) : s = {}
    OBVIOUS
  <2>2. g \in [SUBSET (1 .. 0) -> V] /\ Iterates(g, 0, step, base, seq)
    BY <2>1 DEF Iterates
  <2>3. QED
    BY <2>2
<1>2. ASSUME NEW n \in Nat, Exists(n), n + 1 <= N PROVE Exists(n + 1)
  <2>1. PICK g \in [SUBSET (1 .. n) -> V] : Iterates(g, n, step, base, seq)
    BY <1>2
  <2> DEFINE h == [s \in SUBSET (1 .. n + 1) |->
                     IF n + 1 \in s THEN step[<<g[s \ {n + 1}], seq[n + 1]>>] ELSE g[s]]
  <2>2. \A s \in SUBSET (1 .. n + 1) : /\ s \ {n + 1} \in SUBSET (1 .. n)
                                       /\ n + 1 \notin s => s \in SUBSET (1 .. n)
    OBVIOUS
  <2>3. h \in [SUBSET (1 .. n + 1) -> V]
    <3>1. n + 1 \in 1 .. N
      BY <1>2
    <3>2. QED
      BY <2>2, <3>1
  <2>4. ASSUME NEW s \in SUBSET (1 .. n + 1)
        PROVE  h[s] = IF s = {} THEN base ELSE step[<<h[s \ {Max(s)}], seq[Max(s)]>>]
    <3>1. CASE n + 1 \in s
      <4>1. Max(s) \in s /\ \A m \in s : Max(s) >= m
        <5>1. n + 1 \in Nat /\ s # {}
          BY <3>1
        <5>2. QED
          BY <5>1, GreatestNumber
      <4>2. Max(s) = n + 1
        <5>1. \A m \in s : m \in Int /\ m <= n + 1
          OBVIOUS
        <5>2. Max(s) \in Int /\ Max(s) <= n + 1
          BY <4>1, <5>1
        <5>3. Max(s) >= n + 1
          BY <3>1, <4>1
        <5>4. n + 1 \in Int
          OBVIOUS
        <5>5. QED
          BY <5>2, <5>3, <5>4
      <4>3. s \ {n + 1} \in SUBSET (1 .. n) /\ s \ {n + 1} \in SUBSET (1 .. n + 1)
            /\ n + 1 \notin s \ {n + 1}
        BY <2>2
      <4>4. h[s \ {n + 1}] = g[s \ {n + 1}]
        BY <4>3
      <4>5. QED
        BY <3>1, <4>2, <4>4
    <3>2. CASE n + 1 \notin s /\ s # {}
      <4>1. s \in SUBSET (1 .. n) /\ Max(s) \in s
        <5>1. n + 1 \in Nat /\ s # {}
          BY <3>2
        <5>2. Max(s) \in s
          BY <5>1, GreatestNumber
        <5>3. QED
          BY <2>2, <3>2, <5>2
      <4>2. s \ {Max(s)} \in SUBSET (1 .. n + 1) /\ n + 1 \notin s \ {Max(s)}
        BY <3>2
      <4>3. h[s \ {Max(s)}] = g[s \ {Max(s)}] /\ h[s] = g[s]
        BY <3>2, <4>2
      <4>4. QED
        BY <2>1, <3>2, <4>1, <4>3 DEF Iterates
    <3>3. CASE s = {}
      BY <2>1, <3>3 DEF Iterates
    <3>4. QED
      BY <3>1, <3>2, <3>3
  <2> HIDE DEF h
  <2>5. Iterates(h, n + 1, step, base, seq)
    BY <2>4 DEF Iterates
  <2>6. QED
    BY <2>3, <2>5
<1> HIDE DEF Exists
<1>3. 0 \in S /\ \A n \in Nat : n \in S => n + 1 \in S
  BY <1>1, <1>2
<1> HIDE DEF S
<1>4. Nat \subseteq S
  BY <1>3, Inductive
<1>5. \A n \in Nat : n <= N => Exists(n)
  BY <1>4 DEF S
<1>6. QED
  BY <1>5 DEF Exists

(* The subsets that a fold of a sequence passes through.                    *)
LEMMA UpTo ==
  ASSUME NEW k \in Nat, k # 0
  PROVE  1 .. k # {} /\ Max(1 .. k) = k /\ (1 .. k) \ {k} = 1 .. (k - 1)
<1>1. k \in 1 .. k /\ 1 .. k \in SUBSET (1 .. k)
  OBVIOUS
<1>2. Max(1 .. k) \in 1 .. k /\ \A m \in 1 .. k : Max(1 .. k) >= m
  BY <1>1, GreatestNumber
<1>3. QED
  BY <1>1, <1>2

(* What a fold over a sequence passes through, one element after another.   *)
Typed(step, base, N, seq, V, E) ==
  /\ base \in V /\ N \in Nat
  /\ step \in [V \X E -> V] /\ seq \in [1 .. N -> E]

LEMMA IteratesAll ==
  ASSUME NEW step, NEW base, NEW N, NEW seq, NEW V, NEW E, Typed(step, base, N, seq, V, E)
  PROVE  \E g \in [SUBSET (1 .. N) -> V] : Iterates(g, N, step, base, seq)
<1>1. /\ base \in V /\ N \in Nat /\ N <= N
      /\ step \in [V \X E -> V] /\ seq \in [1 .. N -> E]
  BY DEF Typed
<1>2. QED
  BY <1>1, IterateExists

Unfolds(iter, step, base, N, seq, V) ==
  /\ iter[{}] = base
  /\ \A s \in SUBSET (1 .. N) : s # {} /\ iter[s \ {Max(s)}] \in V
       => iter[s] = step[<<iter[s \ {Max(s)}], seq[Max(s)]>>]

Passes(value, step, base, N, seq, V) ==
  \E g \in [0 .. N -> V] :
    /\ g[0] = base /\ g[N] = value
    /\ \A k \in 1 .. N : g[k] = step[<<g[k - 1], seq[k]>>]

LEMMA Iterated ==
  ASSUME NEW step, NEW base, NEW N, NEW seq, NEW V, NEW E, NEW iter,
         Typed(step, base, N, seq, V, E), Unfolds(iter, step, base, N, seq, V)
  PROVE  Passes(iter[1 .. N], step, base, N, seq, V)
<1>0. /\ base \in V /\ N \in Nat
      /\ step \in [V \X E -> V] /\ seq \in [1 .. N -> E]
  BY DEF Typed
<1> DEFINE T == {k \in Nat : k <= N => iter[1 .. k] \in V}
           g == [k \in 0 .. N |-> iter[1 .. k]]
<1>1. ASSUME NEW k \in Nat, k + 1 <= N
      PROVE  /\ 1 .. (k + 1) # {} /\ Max(1 .. (k + 1)) = k + 1
             /\ (1 .. (k + 1)) \ {k + 1} = 1 .. k
             /\ 1 .. (k + 1) \in SUBSET (1 .. N) /\ k + 1 \in 1 .. N
  <2>1. k + 1 \in Nat /\ k + 1 # 0 /\ (k + 1) - 1 = k
    OBVIOUS
  <2>2. /\ 1 .. (k + 1) # {} /\ Max(1 .. (k + 1)) = k + 1
        /\ (1 .. (k + 1)) \ {k + 1} = 1 .. k
    BY <2>1, UpTo
  <2>3. 1 .. (k + 1) \in SUBSET (1 .. N) /\ k + 1 \in 1 .. N
    BY <1>0, <1>1
  <2>4. QED
    BY <2>2, <2>3
<1>2. 1 .. 0 = {} /\ iter[{}] = base
  BY DEF Unfolds
<1>3. 0 \in T
  BY <1>0, <1>2
<1>4. ASSUME NEW k \in Nat, k + 1 <= N, iter[1 .. k] \in V
      PROVE  iter[1 .. (k + 1)] = step[<<iter[1 .. k], seq[k + 1]>>] /\ iter[1 .. (k + 1)] \in V
  <2>1. iter[1 .. (k + 1)] = step[<<iter[1 .. k], seq[k + 1]>>]
    BY <1>1, <1>4 DEF Unfolds
  <2>2. <<iter[1 .. k], seq[k + 1]>> \in V \X E
    BY <1>0, <1>1, <1>4
  <2>3. step[<<iter[1 .. k], seq[k + 1]>>] \in V
    BY <1>0, <2>2
  <2>4. QED
    BY <2>1, <2>3
<1>5. ASSUME NEW k \in Nat, k \in T PROVE k + 1 \in T
  <2>1. k + 1 <= N => k <= N
    BY <1>0
  <2>2. k + 1 <= N => iter[1 .. k] \in V
    BY <1>5, <2>1
  <2>3. k + 1 <= N => iter[1 .. (k + 1)] \in V
    BY <1>4, <2>2
  <2>4. QED
    BY <2>3
<1> HIDE DEF T
<1>6. Nat \subseteq T
  BY <1>3, <1>5, Inductive
<1>7. \A k \in 0 .. N : iter[1 .. k] \in V
  BY <1>0, <1>6 DEF T
<1>8. g \in [0 .. N -> V] /\ g[0] = base /\ g[N] = iter[1 .. N]
  BY <1>0, <1>2, <1>7
<1>9. ASSUME NEW k \in 1 .. N PROVE g[k] = step[<<g[k - 1], seq[k]>>]
  <2>1. k - 1 \in Nat /\ (k - 1) + 1 = k /\ k - 1 \in 0 .. N /\ k \in 0 .. N /\ k <= N
    BY <1>0
  <2>2. iter[1 .. ((k - 1) + 1)] = step[<<iter[1 .. (k - 1)], seq[(k - 1) + 1]>>]
    BY <1>4, <1>7, <2>1
  <2>3. QED
    BY <2>1, <2>2
<1>10. QED
  BY <1>8, <1>9 DEF Passes

(* The volume of a merged bar is a number.                                  *)
VolumeOf(group) == FoldLeft(LAMBDA sum, e : sum + e.payload.volume, 0, group)

(* The volume of a merged bar is a running sum over its bars.               *)
LEMMA VolumeSums ==
  ASSUME NEW group \in Seq(Event)
  PROVE  \E g \in [0 .. Len(group) -> Nat] :
           /\ g[0] = 0 /\ VolumeOf(group) = g[Len(group)]
           /\ \A k \in 1 .. Len(group) : g[k] = g[k - 1] + group[k].payload.volume
<1> DEFINE N == Len(group)
           D == DOMAIN group
           step == [p \in Nat \X Event |-> p[1] + p[2].payload.volume]
           Steps(f) == f = [s \in SUBSET D |-> IF s = {} THEN 0
                              ELSE f[s \ {Max(s)}] + group[Max(s)].payload.volume]
           iter == CHOOSE f : Steps(f)
<1>1. N \in Nat /\ D = 1 .. N /\ group \in [1 .. N -> Event]
  OBVIOUS
<1>2. \A e \in Event : e.payload.volume \in Nat
  BY DEF Event
<1>3. /\ step \in [Nat \X Event -> Nat]
      /\ \A sum \in Nat, e \in Event : step[<<sum, e>>] = sum + e.payload.volume
  BY <1>2
<1> HIDE DEF step
<1>4. \E f : Steps(f)
  <2>1. PICK g \in [SUBSET (1 .. N) -> Nat] : Iterates(g, N, step, 0, group)
    <3>1. Typed(step, 0, N, group, Nat, Event)
      BY <1>1, <1>3 DEF Typed
    <3>2. QED
      BY <3>1, IteratesAll
  <2>2. ASSUME NEW s \in SUBSET D, s # {}
        PROVE  g[s] = g[s \ {Max(s)}] + group[Max(s)].payload.volume
    <3>1. Max(s) \in D /\ s \ {Max(s)} \in SUBSET D
      BY <1>1, <2>2, GreatestNumber
    <3>2. g[s \ {Max(s)}] \in Nat /\ group[Max(s)] \in Event
      BY <1>1, <2>1, <3>1
    <3>3. QED
      BY <1>1, <1>3, <2>1, <2>2, <3>2 DEF Iterates
  <2>3. g[{}] = 0
    BY <1>1, <2>1 DEF Iterates
  <2>4. Steps(g)
    BY <1>1, <2>1, <2>2, <2>3
  <2>5. QED
    BY <2>4
<1>5. Steps(iter)
  BY <1>4
<1>6. VolumeOf(group) = iter[D]
  BY DEF VolumeOf, FoldLeft, MapThenFoldSet
<1> HIDE DEF iter
<1>7. iter[{}] = 0
  BY <1>5
<1>8. ASSUME NEW s \in SUBSET (1 .. N), s # {}, iter[s \ {Max(s)}] \in Nat
      PROVE  iter[s] = step[<<iter[s \ {Max(s)}], group[Max(s)]>>]
  <2>1. Max(s) \in D
    BY <1>1, <1>8, GreatestNumber
  <2>2. group[Max(s)] \in Event
    BY <1>1, <2>1
  <2>3. iter[s] = iter[s \ {Max(s)}] + group[Max(s)].payload.volume
    BY <1>1, <1>5, <1>8
  <2>4. QED
    BY <1>3, <1>8, <2>2, <2>3
<1>9. PICK g \in [0 .. N -> Nat] :
        /\ g[0] = 0 /\ g[N] = iter[1 .. N]
        /\ \A k \in 1 .. N : g[k] = step[<<g[k - 1], group[k]>>]
  <2>1. Typed(step, 0, N, group, Nat, Event)
    BY <1>1, <1>3 DEF Typed
  <2>2. Unfolds(iter, step, 0, N, group, Nat)
    BY <1>7, <1>8 DEF Unfolds
  <2>3. Passes(iter[1 .. N], step, 0, N, group, Nat)
    BY <2>1, <2>2, Iterated
  <2>4. QED
    BY <2>3 DEF Passes
<1>10. ASSUME NEW k \in 1 .. N PROVE g[k] = g[k - 1] + group[k].payload.volume
  <2>1. k - 1 \in 0 .. N /\ group[k] \in Event
    BY <1>1
  <2>2. g[k] = step[<<g[k - 1], group[k]>>]
    BY <1>9
  <2>3. QED
    BY <1>3, <1>9, <2>1, <2>2
<1>11. QED
  BY <1>1, <1>6, <1>9, <1>10

LEMMA VolumeIs ==
  ASSUME NEW group \in Seq(Event)
  PROVE  VolumeOf(group) \in Nat
BY VolumeSums

(* The bars of one interval: at least one, and all of the tape.             *)
LEMMA GroupIs ==
  ASSUME NEW tuple \in Seq(Event), NEW interval, NEW key \in Keys(tuple, interval)
  PROVE  LET group == Group(tuple, key, interval)
         IN group \in Seq(Event) /\ Len(group) \in Nat \ {0}
<1> DEFINE P == {n \in DOMAIN tuple : Key(tuple[n], interval) = key}
<1>1. P \in SUBSET DOMAIN tuple /\ P # {}
  BY DEF Keys
<1>2. Group(tuple, key, interval) = Ordered(tuple, P)
  BY DEF Group
<1> HIDE DEF P
<1>3. /\ Ordered(tuple, P) \in Seq(Event) /\ Len(Ordered(tuple, P)) = Cardinality(P)
      /\ IsFiniteSet(P) /\ Cardinality(P) \in Nat
  BY <1>1, OrderedIs
<1>4. Cardinality(P) # 0
  BY <1>1, <1>3, FS_EmptySet
<1>5. QED
  BY <1>2, <1>3, <1>4

(* A merged bar is an event, and carries the number it was given.           *)
LEMMA MergedIs ==
  ASSUME NEW group \in Seq(Event), Len(group) \in Nat \ {0}, NEW key,
         NEW interval \in Nat \ {0}, NEW sequence \in Nat,
         key[1] \in DOMAIN InstrumentRank, (key[2] + 1) * interval \in Nat
  PROVE  /\ MergedBar(group, key, interval, sequence) \in Event
         /\ MergedBar(group, key, interval, sequence).sequence = sequence
<1> DEFINE N == Len(group)
<1>1. N \in Nat \ {0} /\ 1 \in 1 .. N /\ N \in 1 .. N /\ DOMAIN group = 1 .. N
      /\ \A k \in 1 .. N : group[k] \in Event
  OBVIOUS
<1>2. ToSet(group) = {group[k] : k \in 1 .. N}
  BY <1>1 DEF ToSet
<1> HIDE DEF N
<1>3. AvailableTime(group) \in Nat
  <2> DEFINE f == [k \in 1 .. N |-> group[k].available_time]
  <2>1. f \in [1 .. N -> Nat]
    BY <1>1 DEF Event
  <2>2. {e.available_time : e \in ToSet(group)} = {f[k] : k \in 1 .. N}
    BY <1>2
  <2> HIDE DEF f
  <2>3. QED
    BY <1>1, <2>1, <2>2, Extremes DEF AvailableTime
<1>4. Max({e.payload.high : e \in ToSet(group)}) \in Nat
  <2> DEFINE f == [k \in 1 .. N |-> group[k].payload.high]
  <2>1. f \in [1 .. N -> Nat]
    BY <1>1 DEF Event
  <2>2. {e.payload.high : e \in ToSet(group)} = {f[k] : k \in 1 .. N}
    BY <1>2
  <2> HIDE DEF f
  <2>3. QED
    BY <1>1, <2>1, <2>2, Extremes
<1>5. Min({e.payload.low : e \in ToSet(group)}) \in Nat
  <2> DEFINE f == [k \in 1 .. N |-> group[k].payload.low]
  <2>1. f \in [1 .. N -> Nat]
    BY <1>1 DEF Event
  <2>2. {e.payload.low : e \in ToSet(group)} = {f[k] : k \in 1 .. N}
    BY <1>2
  <2> HIDE DEF f
  <2>3. QED
    BY <1>1, <2>1, <2>2, Extremes
<1>6. VolumeOf(group) \in Nat
  BY VolumeIs
<1>7. /\ group[1].payload.open \in Nat /\ group[N].payload.close \in Nat
      /\ group[1].source \in STRING /\ group[1].source_length + 23 \in Nat
  <2>1. group[1] \in Event /\ group[N] \in Event
    BY <1>1
  <2>2. /\ group[1].payload.open \in Nat /\ group[N].payload.close \in Nat
        /\ group[1].source \in STRING /\ group[1].source_length \in Nat
    BY <2>1 DEF Event
  <2> HIDE DEF N
  <2>3. \A n \in Nat : n + 23 \in Nat
    OBVIOUS
  <2>4. QED
    BY <2>2, <2>3
<1>8. MergedPayload(group) \in [kind : {"bar", "quote"}, open : Nat, high : Nat, low : Nat,
                                close : Nat, volume : Nat]
  BY <1>4, <1>5, <1>6, <1>7 DEF MergedPayload, VolumeOf, N
<1>9. MergedBar(group, key, interval, sequence) \in Event
  BY <1>3, <1>7, <1>8 DEF MergedBar, Event
<1>10. QED
  BY <1>9 DEF MergedBar

(* The merged bars: one a key, each with a number of its own.               *)
LEMMA NumberedIs ==
  ASSUME NEW tuple \in Seq(Event), NEW interval \in Nat \ {0}
  PROVE  LET bars == Numbered(tuple, interval)
         IN bars \in Seq(Event) /\ \A n \in DOMAIN bars : bars[n].sequence = n - 1
<1> DEFINE K == Keys(tuple, interval)
           before == KeysBefore(tuple, interval)
           C == Cardinality(K)
           KeyAt(n) == CHOOSE k \in K : Cardinality({l \in K : KeyBefore(l, k)}) = n - 1
           Bar(n) == MergedBar(Group(tuple, KeyAt(n), interval), KeyAt(n), interval, n - 1)
           bars == Numbered(tuple, interval)
<1>1. IsFiniteSet(K) /\ Ranking(K, before) /\ C \in Nat
  BY KeysAre, FS_CardinalityType
<1>2. bars = [n \in 1 .. C |-> Bar(n)]
  BY DEF Numbered, Keys
<1>3. ASSUME NEW n \in 1 .. C PROVE KeyAt(n) \in K
  <2>1. PICK k \in K : Cardinality(before[k]) = n - 1
    <3> HIDE DEF K, before
    <3>1. QED
      BY <1>1, Ranked
  <2>2. Cardinality({l \in K : KeyBefore(l, k)}) = n - 1
    BY <2>1 DEF KeysBefore
  <2> HIDE DEF K
  <2>3. QED
    BY <2>2
<1>4. ASSUME NEW k \in K
      PROVE  k[1] \in DOMAIN InstrumentRank /\ (k[2] + 1) * interval \in Nat
  <2>1. PICK n \in DOMAIN tuple : k = Key(tuple[n], interval)
    BY DEF Keys
  <2>2. tuple[n] \in Event
    OBVIOUS
  <2>3. tuple[n].instrument_id \in DOMAIN InstrumentRank /\ tuple[n].event_time \in Nat
    BY <2>2 DEF Event
  <2>4. k[1] = tuple[n].instrument_id /\ k[2] = (tuple[n].event_time - 1) \div interval
    BY <2>1 DEF Key, Bucket
  <2>5. QED
    BY <2>3, <2>4, BucketIs
<1>5. ASSUME NEW n \in 1 .. C PROVE Bar(n) \in Event /\ Bar(n).sequence = n - 1
  <2> HIDE DEF KeyAt, K, C
  <2>1. n - 1 \in Nat /\ KeyAt(n) \in K
    BY <1>1, <1>3
  <2>2. Group(tuple, KeyAt(n), interval) \in Seq(Event)
        /\ Len(Group(tuple, KeyAt(n), interval)) \in Nat \ {0}
    BY <2>1, GroupIs DEF K
  <2>3. QED
    BY <1>4, <2>1, <2>2, MergedIs
<1> HIDE DEF K, KeyAt, Bar
<1>6. DOMAIN bars = 1 .. C /\ \A n \in 1 .. C : bars[n] = Bar(n)
  BY <1>2
<1>7. bars \in Seq(Event)
  BY <1>1, <1>2, <1>5
<1>8. QED
  BY <1>5, <1>6, <1>7

(* They leave in the engine's order, whatever order the events came in.     *)
LEMMA ResampledIs ==
  ASSUME NEW tuple \in Seq(Event), NEW interval \in Nat \ {0}
  PROVE  Resampled(tuple, interval) \in Seq(Event) /\ InOrder(Resampled(tuple, interval))
<1> DEFINE bars == Numbered(tuple, interval)
           P == DOMAIN bars
           t == Ordered(bars, P)
           C == Cardinality(P)
<1>1. bars \in Seq(Event) /\ \A n \in P : bars[n].sequence = n - 1
  BY NumberedIs
<1>2. Resampled(tuple, interval) = t
  BY DEF Resampled
<1> HIDE DEF bars
<1>3. P \in SUBSET DOMAIN bars /\ \A n \in P : n \in Int /\ bars[n] \in Event
  BY <1>1
<1>4. t \in Seq(Event) /\ DOMAIN t = 1 .. C
  BY <1>1, <1>3, OrderedIs
<1>5. PICK at \in [1 .. C -> P] :
        /\ \A k \in 1 .. C : t[k] = bars[at[k]]
        /\ \A j, k \in 1 .. C : j < k => Precedes(bars, at[j], at[k])
  BY <1>1, <1>3, OrderedIs
<1>6. ASSUME NEW m \in P, NEW n \in P, Precedes(bars, m, n) PROVE Earlier(bars[m], bars[n])
  <2>1. /\ bars[m].available_time \in Nat /\ bars[n].available_time \in Nat
        /\ bars[m].sequence = m - 1 /\ bars[n].sequence = n - 1 /\ m \in Int /\ n \in Int
    BY <1>1, <1>3 DEF Event
  <2>2. QED
    BY <1>6, <2>1 DEF Precedes, Earlier
<1> HIDE DEF P, t, C
<1>7. InOrder(t)
  BY <1>4, <1>5, <1>6 DEF InOrder
<1>8. QED
  BY <1>2, <1>4, <1>7

(* Two events that differ in no more than their names: the instrument, and  *)
(* the prefixes of the source.                                              *)
ButForName(e, f) ==
  /\ e.event_time = f.event_time /\ e.available_time = f.available_time
  /\ e.sequence = f.sequence /\ e.source = f.source /\ e.payload = f.payload

(* A symbol map changes names only, and no order.                           *)
LEMMA MapsIs ==
  ASSUME NEW tuple \in Seq(Event), NEW mapping,
         \A i \in DOMAIN mapping : mapping[i] \in DOMAIN InstrumentRank
  PROVE  LET t == MapSymbols(tuple, mapping)
         IN /\ t \in Seq(Event) /\ DOMAIN t = DOMAIN tuple /\ Len(t) = Len(tuple)
            /\ \A n \in DOMAIN tuple :
                 /\ ButForName(t[n], tuple[n])
                 /\ t[n].instrument_id =
                      IF tuple[n].instrument_id \in DOMAIN mapping
                      THEN mapping[tuple[n].instrument_id] ELSE tuple[n].instrument_id
                 /\ t[n].source_length \in {tuple[n].source_length, tuple[n].source_length + 21}
            /\ InOrder(tuple) => InOrder(t)
<1> DEFINE N == Len(tuple)
           t == MapSymbols(tuple, mapping)
           To(i) == IF i \in DOMAIN mapping THEN mapping[i] ELSE i
<1>1. N \in Nat /\ DOMAIN tuple = 1 .. N /\ \A n \in 1 .. N : tuple[n] \in Event
  OBVIOUS
<1>2. ASSUME NEW n \in 1 .. N
      PROVE  /\ ButForName(t[n], tuple[n]) /\ t[n].instrument_id = To(tuple[n].instrument_id)
             /\ t[n].source_length \in {tuple[n].source_length, tuple[n].source_length + 21}
             /\ t[n] \in Event
  <2> DEFINE e == tuple[n]
             i == e.instrument_id
             l == e.source_length
  <2>1. e \in Event /\ i \in DOMAIN InstrumentRank /\ l \in Nat
    BY <1>1 DEF Event
  <2>2. CASE i \in DOMAIN mapping
    <3>1. t[n] = [e EXCEPT !.instrument_id = mapping[i], !.source_length = l + 21]
      BY <1>1, <2>2 DEF MapSymbols
    <3>2. mapping[i] \in DOMAIN InstrumentRank /\ l + 21 \in Nat
      BY <2>1, <2>2
    <3> HIDE DEF t
    <3>3. t[n] \in Event /\ ButForName(t[n], e)
          /\ t[n].instrument_id = mapping[i] /\ t[n].source_length = l + 21
      BY <2>1, <3>1, <3>2 DEF Event, ButForName
    <3>4. QED
      BY <2>2, <3>3
  <2>3. CASE i \notin DOMAIN mapping
    <3>1. t[n] = e
      BY <1>1, <2>3 DEF MapSymbols
    <3>2. QED
      BY <2>1, <2>3, <3>1 DEF ButForName
  <2>4. QED
    BY <2>2, <2>3
<1>3. DOMAIN t = 1 .. N /\ t = [n \in 1 .. N |-> t[n]]
  BY <1>1 DEF MapSymbols
<1> HIDE DEF t
<1>4. t \in Seq(Event) /\ Len(t) = N
  BY <1>1, <1>2, <1>3
<1>5. \A m, n \in 1 .. N : Earlier(tuple[m], tuple[n]) => Earlier(t[m], t[n])
  <2> HIDE DEF To
  <2>1. \A n \in 1 .. N : /\ t[n].available_time = tuple[n].available_time
                          /\ t[n].sequence = tuple[n].sequence
    BY <1>2 DEF ButForName
  <2>2. QED
    BY <2>1 DEF Earlier
<1>6. InOrder(tuple) => InOrder(t)
  BY <1>1, <1>3, <1>5 DEF InOrder
<1>7. QED
  BY <1>1, <1>2, <1>3, <1>4, <1>6 DEF t

(* A plan has a record for each requirement, of a stream it asks for, and   *)
(* only conversions that the policy authorizes.                             *)
Required == {strategy.requirements[k] : k \in DOMAIN strategy.requirements}
Held == {streams[n] : n \in DOMAIN streams}

MapRecords ==
  {r \in {MapRecord(q, s) : q \in Required, s \in Held} :
     \E q \in Required, s \in Held : r = MapRecord(q, s) /\ MappingValid(s, q.symbols)}

ResampleRecords ==
  {r \in {ResampleRecord(q, s) : q \in Required, s \in Held} :
     \E q \in Required, s \in Held :
       r = ResampleRecord(q, s) /\ ResampleAllowed(s, q.timeframe)}

PlanRecords == {ExactRecord(s) : s \in Held} \cup MapRecords \cup ResampleRecords

(* The three shapes of a record, as apply_compatibility_plan tells them     *)
(* apart.                                                                   *)
LEMMA RecordsAre ==
  ASSUME request \in Requests, NEW r \in PlanRecords
  PROVE  \/ r.result = "EXACT" /\ r.transformation_id = "none"
         \/ /\ r.result = "TRANSFORMED_LOSSLESS" /\ r.transformation_id = "symbol.map.v1"
            /\ \A i \in DOMAIN r.mapping : r.mapping[i] \in DOMAIN InstrumentRank
         \/ /\ r.result = "TRANSFORMED_LOSSY" /\ r.transformation_id = "bar.resample.v1"
            /\ r.target_interval \in Nat \ {0} /\ policy.allow_lossy
<1>1. CASE r \in {ExactRecord(s) : s \in Held}
  BY <1>1 DEF ExactRecord
<1>2. CASE r \in MapRecords
  <2>1. PICK q \in Required, s \in Held : r = MapRecord(q, s)
    BY <1>2 DEF MapRecords
  <2>2. \A i \in DOMAIN RelevantMapping(s, q.symbols) :
          /\ i \in DOMAIN policy.mapping
          /\ RelevantMapping(s, q.symbols)[i] = policy.mapping[i]
    BY DEF RelevantMapping, Restrict
  <2>3. \A i \in DOMAIN policy.mapping : policy.mapping[i] \in DOMAIN InstrumentRank
    BY RequestsAssumption DEF policy
  <2>4. QED
    BY <2>1, <2>2, <2>3 DEF MapRecord
<1>3. CASE r \in ResampleRecords
  <2>1. PICK q \in Required, s \in Held :
          r = ResampleRecord(q, s) /\ ResampleAllowed(s, q.timeframe)
    BY <1>3 DEF ResampleRecords
  <2>2. q.timeframe.interval \in Nat /\ s.timeframe.interval \in Nat
    BY RequestsAssumption DEF Required, Held, strategy, streams
  <2>3. 0 < s.timeframe.interval /\ s.timeframe.interval < q.timeframe.interval
        /\ policy.allow_lossy
    BY <2>1 DEF ResampleAllowed, CanResampleStream
  <2>4. QED
    BY <2>1, <2>2, <2>3 DEF ResampleRecord
<1>4. QED
  BY <1>1, <1>2, <1>3 DEF PlanRecords

(* Each of them makes events of events and keeps them in order.             *)
LEMMA AppliedIs ==
  ASSUME request \in Requests, NEW r \in PlanRecords, NEW tuple \in Seq(Event)
  PROVE  /\ Applied(r, tuple) \in Seq(Event)
         /\ InOrder(tuple) => InOrder(Applied(r, tuple))
<1>1. CASE r.result = "EXACT" /\ r.transformation_id = "none"
  BY <1>1 DEF Applied
<1>2. CASE /\ r.result = "TRANSFORMED_LOSSLESS" /\ r.transformation_id = "symbol.map.v1"
           /\ \A i \in DOMAIN r.mapping : r.mapping[i] \in DOMAIN InstrumentRank
  <2>1. Applied(r, tuple) = MapSymbols(tuple, r.mapping)
    BY <1>2 DEF Applied
  <2>2. QED
    BY <1>2, <2>1, MapsIs
<1>3. CASE /\ r.result = "TRANSFORMED_LOSSY" /\ r.transformation_id = "bar.resample.v1"
           /\ r.target_interval \in Nat \ {0}
  <2>1. Applied(r, tuple) = Resampled(tuple, r.target_interval)
    BY <1>3 DEF Applied
  <2>2. QED
    BY <1>3, <2>1, ResampledIs
<1>4. QED
  BY <1>1, <1>2, <1>3, RecordsAre

(* What an accepted requirement adds to the plan.                           *)
LEMMA RequirementAccepted ==
  ASSUME request \in Requests, NEW requirement,
         Failing(RequirementChecks(requirement)) = {}
  PROVE  LET stream == FindStream(requirement.stream_id)
         IN /\ stream \in Held
            /\ MustMap(requirement, stream) => MappingValid(stream, requirement.symbols)
            /\ MustResample(requirement, stream)
                 => ResampleAllowed(stream, requirement.timeframe)
<1>1. Streams(requirement.stream_id) # {}
  <2>1. ~Check(FALSE, "DATA_STREAM_MISSING").holds
    BY DEF Check
  <2>2. Failing(<< Check(FALSE, "DATA_STREAM_MISSING") >>) # {}
    BY <2>1, OneHolds
  <2>3. QED
    BY <2>2 DEF RequirementChecks
<1> DEFINE stream == FindStream(requirement.stream_id)
<1>2. stream \in Held
  BY <1>1, FirstFound DEF FirstNamed, FindStream, Held
<1> DEFINE c1 == requirement.kind \in engine.data_kinds
           c2 == stream.kind = requirement.kind
           c3 == requirement.fields \subseteq stream.fields
           c4 == MustMap(requirement, stream) => MappingValid(stream, requirement.symbols)
           c5 == MustResample(requirement, stream)
                   => ResampleAllowed(stream, requirement.timeframe)
<1>3. RequirementChecks(requirement) =
        << Check(c1, "ENGINE_CAPABILITY_UNSUPPORTED"), Check(c2, "DATA_STREAM_MISSING"),
           Check(c3, "DATA_FIELD_MISSING"), Check(c4, "SYMBOL_MAPPING_FAILED"),
           Check(c5, "DATA_TIMEFRAME_MISMATCH") >>
  BY <1>1 DEF RequirementChecks
<1>4. c4 \in BOOLEAN /\ c5 \in BOOLEAN
  OBVIOUS
<1> HIDE DEF c1, c2, c3, c4, c5
<1>5. c4 /\ c5
  BY <1>3, <1>4, FiveHold, Checked
<1>6. QED
  BY <1>2, <1>5 DEF c4, c5

(* What RecordsFor adds to a plan are such records.                         *)
LEMMA RecordsAdded ==
  ASSUME request \in Requests, NEW requirement \in Required,
         Failing(RequirementChecks(requirement)) = {}
  PROVE  RecordsFor(requirement, FindStream(requirement.stream_id)) \in Seq(PlanRecords)
<1> DEFINE stream == FindStream(requirement.stream_id)
           mapped == IF MustMap(requirement, stream)
                     THEN <<MapRecord(requirement, stream)>> ELSE <<>>
           resampled == IF MustResample(requirement, stream)
                        THEN <<ResampleRecord(requirement, stream)>> ELSE <<>>
<1>1. /\ stream \in Held
      /\ MustMap(requirement, stream) => MappingValid(stream, requirement.symbols)
      /\ MustResample(requirement, stream)
           => ResampleAllowed(stream, requirement.timeframe)
  BY RequirementAccepted
<1> HIDE DEF stream
<1>2. ExactRecord(stream) \in PlanRecords
  BY <1>1 DEF PlanRecords
<1>3. MustMap(requirement, stream) => MapRecord(requirement, stream) \in PlanRecords
  BY <1>1 DEF PlanRecords, MapRecords
<1>4. MustResample(requirement, stream) => ResampleRecord(requirement, stream) \in PlanRecords
  BY <1>1 DEF PlanRecords, ResampleRecords
<1>5. mapped \in Seq(PlanRecords) /\ resampled \in Seq(PlanRecords)
  BY <1>3, <1>4
<1>6. mapped \o resampled \in Seq(PlanRecords)
  <2> HIDE DEF mapped, resampled
  <2>1. QED
    BY <1>5
<1>7. <<ExactRecord(stream)>> \in Seq(PlanRecords)
  BY <1>2
<1>8. QED
  BY <1>6, <1>7 DEF RecordsFor, stream

(* A refusal names its code.                                                *)
LEMMA RefusalNamed ==
  ASSUME NEW checks, NEW N \in Nat, DOMAIN checks = 1 .. N,
         \A n \in 1 .. N : checks[n].code # "none", Refuse(checks)
  PROVE  code' # "none"
<1>1. Failing(checks) \in SUBSET Nat /\ Failing(checks) # {}
      /\ Failing(checks) \subseteq 1 .. N
  BY DEF Failing, Refuse
<1>2. Min(Failing(checks)) \in 1 .. N
  BY <1>1, LeastNumber
<1>3. QED
  BY <1>2 DEF Refuse

(* A refusal by five checks, or by one, gives one of their codes.           *)
LEMMA FiveCodes ==
  ASSUME NEW a, NEW b, NEW c, NEW d, NEW e,
         \A check \in {a, b, c, d, e} : check.code # "none"
  PROVE  Refuse(<<a, b, c, d, e>>) => code' # "none"
<1> DEFINE checks == <<a, b, c, d, e>>
<1>1. /\ DOMAIN checks = 1..5
      /\ checks[1] = a /\ checks[2] = b /\ checks[3] = c /\ checks[4] = d /\ checks[5] = e
  OBVIOUS
<1>2. \A n \in 1..5 : n = 1 \/ n = 2 \/ n = 3 \/ n = 4 \/ n = 5
  OBVIOUS
<1> HIDE DEF checks
<1>3. \A n \in 1..5 : checks[n].code # "none"
  BY <1>1, <1>2
<1>4. 5 \in Nat
  OBVIOUS
<1>5. Refuse(checks) => code' # "none"
  BY <1>1, <1>3, <1>4, RefusalNamed
<1>6. QED
  BY <1>5 DEF checks

LEMMA OneCode ==
  ASSUME NEW a, a.code # "none"
  PROVE  Refuse(<<a>>) => code' # "none"
<1> DEFINE checks == <<a>>
<1>1. DOMAIN checks = 1..1 /\ checks[1] = a /\ \A n \in 1..1 : n = 1
  OBVIOUS
<1> HIDE DEF checks
<1>2. \A n \in 1..1 : checks[n].code # "none"
  BY <1>1
<1>3. 1 \in Nat
  OBVIOUS
<1>4. Refuse(checks) => code' # "none"
  BY <1>1, <1>2, <1>3, RefusalNamed
<1>5. QED
  BY <1>4 DEF checks

(* No refusal of the compiler leaves the code empty.                        *)
LEMMA EveryRefusalNamed ==
  ASSUME RefuseDeclaration \/ RefuseRequirement \/ RefuseSandbox
  PROVE  code' # "none"
<1>1. CASE RefuseDeclaration
  BY <1>1, FiveCodes DEF RefuseDeclaration, DeclarationChecks, Check
<1>2. CASE RefuseRequirement
  <2>1. Refuse(RequirementChecks(Current))
    BY <1>2 DEF RefuseRequirement
  <2>2. CASE Streams(Current.stream_id) = {}
    BY <2>1, <2>2, OneCode DEF RequirementChecks, Check
  <2>3. CASE Streams(Current.stream_id) # {}
    BY <2>1, <2>3, FiveCodes DEF RequirementChecks, Check
  <2>4. QED
    BY <2>2, <2>3
<1>3. CASE RefuseSandbox
  BY <1>3, OneCode DEF RefuseSandbox, SandboxChecks, Check
<1>4. QED
  BY <1>1, <1>2, <1>3

(* The invariant: a plan in the making, and the events as far as it has     *)
(* been applied.                                                            *)
PlanInv ==
  /\ records \in Seq(PlanRecords)
  /\ events \in Seq(Event)
  /\ InOrder(tape) => InOrder(events)
  /\ next <= Len(records) + Len(strategy.requirements) + 1
  /\ stage \in {"declaration", "requirement", "refused"} =>
       next <= Len(strategy.requirements) + 1
  /\ stage = "planned" => next <= Len(records) + 1
  /\ stage \in {"refused", "failed"} <=> code # "none"

LEMMA PlanStart == Init => PlanInv
<1> SUFFICES ASSUME Init PROVE PlanInv
  OBVIOUS
<1>1. request.events \in Seq(Event) /\ Len(strategy.requirements) \in Nat
  BY RequestsAssumption DEF Init, Tuple, strategy
<1>2. /\ records = <<>> /\ Len(<<>>) = 0 /\ <<>> \in Seq(PlanRecords) /\ events = request.events
      /\ next = 1 /\ stage = "declaration" /\ code = "none"
  BY DEF Init
<1>3. QED
  BY <1>1, <1>2 DEF PlanInv, tape

(* Every step of the compiler and of the transformation keeps it.           *)
LEMMA PlanStep == CompileInv /\ PlanInv /\ [Next]_vars => PlanInv'
<1> SUFFICES ASSUME CompileInv, PlanInv, [Next]_vars PROVE PlanInv'
  OBVIOUS
<1> DEFINE L == Len(strategy.requirements)
<1>1. /\ request \in Requests /\ next \in Nat \ {0} /\ L \in Nat
      /\ DOMAIN strategy.requirements = 1 .. L
  BY RequestsAssumption DEF CompileInv, Tuple, strategy
<1>2. /\ records \in Seq(PlanRecords) /\ events \in Seq(Event)
      /\ InOrder(tape) => InOrder(events)
      /\ Len(records) \in Nat /\ DOMAIN records = 1 .. Len(records)
      /\ next <= Len(records) + L + 1
      /\ stage \in {"declaration", "requirement", "refused"} => next <= L + 1
      /\ stage = "planned" => next <= Len(records) + 1
      /\ stage \in {"refused", "failed"} <=> code # "none"
  BY DEF PlanInv
<1>3. request' = request
  BY DEF Next, RefuseDeclaration, AcceptDeclaration, RefuseRequirement, AcceptRequirement,
         RefuseSandbox, Refuse, Plan, Apply, ApplyFails, Deliver, Ended, vars
<1>4. PlanRecords' = PlanRecords /\ tape' = tape /\ strategy' = strategy /\ L' = L
  BY <1>3 DEF PlanRecords, MapRecords, ResampleRecords, Required, Held, MapRecord, ResampleRecord,
              MappingValid, RelevantMapping, ResampleAllowed, tape, strategy, streams, policy
<1> HIDE DEF L
<1>5. CASE RefuseDeclaration \/ RefuseRequirement \/ RefuseSandbox
  <2>1. /\ stage \in {"declaration", "requirement"} /\ stage' = "refused" /\ next' = next
        /\ records' = records /\ events' = events
    BY <1>5 DEF RefuseDeclaration, RefuseRequirement, RefuseSandbox, Refuse
  <2>2. code' # "none"
    BY <1>5, EveryRefusalNamed
  <2>3. QED
    BY <1>2, <1>4, <2>1, <2>2 DEF PlanInv, L, InOrder
<1>6. CASE AcceptDeclaration
  <2>1. /\ stage = "declaration" /\ stage' = "requirement" /\ next' = next
        /\ records' = records /\ events' = events /\ code' = code
    BY <1>6 DEF AcceptDeclaration
  <2>2. QED
    BY <1>2, <1>4, <2>1 DEF PlanInv, L, InOrder
<1>7. CASE AcceptRequirement
  <2> DEFINE new == RecordsFor(Current, FindStream(Current.stream_id))
  <2>1. /\ stage = "requirement" /\ stage' = stage /\ next' = next + 1 /\ ~(next > L)
        /\ records' = records \o new /\ events' = events /\ code' = code
        /\ Failing(RequirementChecks(Current)) = {}
    BY <1>7 DEF AcceptRequirement, AllCompiled, L
  <2>2. Current \in Required
    <3>1. next \in 1 .. L
      BY <1>1, <2>1
    <3>2. QED
      BY <1>1, <3>1 DEF Current, Required
  <2>3. new \in Seq(PlanRecords)
    BY <1>1, <2>1, <2>2, RecordsAdded
  <2> HIDE DEF new
  <2>4. /\ records' \in Seq(PlanRecords) /\ Len(records') = Len(records) + Len(new)
        /\ Len(new) \in Nat
    BY <1>2, <2>1, <2>3
  <2>5. next' <= L + 1 /\ next' <= Len(records') + L + 1
    BY <1>1, <1>2, <2>1, <2>4
  <2>6. QED
    BY <1>2, <1>4, <2>1, <2>4, <2>5 DEF PlanInv, L, InOrder
<1>8. CASE Plan
  <2>1. /\ stage = "requirement" /\ stage' = "planned" /\ next' = 1
        /\ records' = records /\ events' = events /\ code' = code
    BY <1>8 DEF Plan
  <2>2. 1 <= Len(records) + 1 /\ 1 <= Len(records) + L + 1
    BY <1>1, <1>2
  <2>3. QED
    BY <1>2, <1>4, <2>1, <2>2 DEF PlanInv, L, InOrder
<1>9. CASE Apply
  <2>1. /\ stage = "planned" /\ stage' = stage /\ next \in DOMAIN records /\ next' = next + 1
        /\ records' = records /\ events' = Applied(records[next], events) /\ code' = code
    BY <1>9 DEF Apply
  <2>2. records[next] \in PlanRecords
    BY <1>2, <2>1
  <2>3. events' \in Seq(Event) /\ (InOrder(events) => InOrder(events'))
    BY <1>1, <1>2, <2>1, <2>2, AppliedIs
  <2>4. next' <= Len(records) + 1 /\ next' <= Len(records) + L + 1
    BY <1>1, <1>2, <2>1
  <2>5. QED
    BY <1>2, <1>4, <2>1, <2>3, <2>4 DEF PlanInv, L, InOrder
<1>10. CASE ApplyFails
  <2>1. /\ stage' = "failed" /\ next' = next /\ code' = "COMPATIBILITY_TRANSFORM_FAILED"
        /\ records' = records /\ events' = events
    BY <1>10 DEF ApplyFails
  <2>2. QED
    BY <1>2, <1>4, <2>1 DEF PlanInv, L, InOrder
<1>11. CASE Deliver
  <2>1. /\ stage = "planned" /\ stage' = "delivered" /\ next' = next
        /\ records' = records /\ events' = events /\ code' = code
    BY <1>11 DEF Deliver
  <2>2. QED
    BY <1>2, <1>4, <2>1 DEF PlanInv, L, InOrder
<1>12. CASE UNCHANGED vars
  BY <1>2, <1>4, <1>12 DEF PlanInv, L, InOrder, vars
<1>13. QED
  BY <1>5, <1>6, <1>7, <1>8, <1>9, <1>10, <1>11, <1>12 DEF Next, Ended

LEMMA PlanInvariant == Spec => [](CompileInv /\ PlanInv)
<1>1. Init => CompileInv /\ PlanInv
  BY CompileStart, PlanStart
<1>2. CompileInv /\ PlanInv /\ [Next]_vars => (CompileInv /\ PlanInv)'
  BY CompileStep, PlanStep
<1>3. QED
  BY <1>1, <1>2, PTL DEF Spec

(* Types: a plan has only records that apply_compatibility_plan knows, the  *)
(* events stay events through every conversion, and a run that ended        *)
(* without delivering has a code.                                           *)
THEOREM CompilerTypes == Spec => []CompilerTypeOK
<1>1. CompileInv /\ PlanInv => CompilerTypeOK
  <2> SUFFICES ASSUME CompileInv, PlanInv PROVE CompilerTypeOK
    OBVIOUS
  <2>1. request \in Requests /\ next \in Nat \ {0} /\ Len(strategy.requirements) \in Nat
    BY RequestsAssumption DEF CompileInv, Tuple, strategy
  <2>2. records \in Seq(PlanRecords) /\ events \in Seq(Event) /\ Len(records) \in Nat
        /\ next <= Len(records) + Len(strategy.requirements) + 1
        /\ (stage \in {"refused", "failed"} <=> code # "none")
    BY DEF PlanInv
  <2>3. next \in 1 .. Len(records) + Len(strategy.requirements) + 1
    BY <2>1, <2>2
  <2>4. ASSUME NEW n \in DOMAIN records
        PROVE  /\ records[n].result \in {"EXACT", "TRANSFORMED_LOSSLESS", "TRANSFORMED_LOSSY"}
               /\ records[n].transformation_id \in {"none", "symbol.map.v1", "bar.resample.v1"}
    <3>1. records[n] \in PlanRecords
      BY <2>2
    <3>2. QED
      BY <2>1, <3>1, RecordsAre
  <2>5. \A n \in DOMAIN events : events[n] \in Event
    BY <2>2
  <2>6. QED
    BY <2>2, <2>3, <2>4, <2>5 DEF CompileInv, CompilerTypeOK
<1>2. QED
  BY <1>1, PlanInvariant, PTL

(* The engine takes events in the order of (available_time, sequence): what *)
(* a plan makes of a dataset in that order is in that order, however many   *)
(* instruments and intervals are merged and renumbered on the way.          *)
THEOREM DeliversInOrder == Spec => []DeliveredInOrder
<1>1. PlanInv => DeliveredInOrder
  BY DEF PlanInv, DeliveredInOrder
<1>2. QED
  BY <1>1, PlanInvariant, PTL

(* The mapping of one record takes a symbol of its stream to the name that  *)
(* the policy gives it; that name is none of the stream's, and no other     *)
(* symbol of the stream has it.                                             *)
UsedBy(i, s) ==
  /\ s \in Held
  /\ \E q \in Required : MappingValid(s, q.symbols) /\ i \in DOMAIN RelevantMapping(s, q.symbols)

Renamed == {i \in DOMAIN policy.mapping : \E s \in Held : UsedBy(i, s)}

(* What _symbol_mapping has verified of a mapping that a record uses.       *)
LEMMA UsedIs ==
  ASSUME NEW i, NEW s, UsedBy(i, s)
  PROVE  /\ s \in ToSet(streams) /\ i \in s.symbols \cap DOMAIN policy.mapping
         /\ policy.mapping[i] \notin s.symbols
         /\ \A j \in s.symbols \cap DOMAIN policy.mapping :
              policy.mapping[i] = policy.mapping[j] => i = j
<1>1. PICK q \in Required : MappingValid(s, q.symbols) /\ i \in DOMAIN RelevantMapping(s, q.symbols)
  BY DEF UsedBy
<1> DEFINE rho == RelevantMapping(s, q.symbols)
<1>2. DOMAIN rho = {x \in DOMAIN policy.mapping : x \in s.symbols /\ policy.mapping[x] \in q.symbols}
  BY DEF RelevantMapping, Restrict
<1>3. \A x \in DOMAIN rho : rho[x] = policy.mapping[x]
  BY DEF RelevantMapping, Restrict
<1>4. IsInjective(rho) /\ Range(rho) \cap s.symbols = {}
  BY <1>1 DEF MappingValid
<1>5. i \in DOMAIN rho
  BY <1>1
<1>6. s \in ToSet(streams)
  BY DEF UsedBy, Held, ToSet
<1> HIDE DEF rho
<1>7. i \in s.symbols \cap DOMAIN policy.mapping /\ policy.mapping[i] \in q.symbols
  BY <1>2, <1>5
<1>8. policy.mapping[i] \notin s.symbols
  BY <1>3, <1>4, <1>5 DEF Range
<1>9. ASSUME NEW j \in s.symbols \cap DOMAIN policy.mapping, policy.mapping[i] = policy.mapping[j]
      PROVE  i = j
  <2>1. j \in DOMAIN rho
    BY <1>2, <1>7, <1>9
  <2>2. rho[i] = rho[j]
    BY <1>3, <1>5, <1>9, <2>1
  <2>3. QED
    BY <1>4, <1>5, <2>1, <2>2 DEF IsInjective
<1>10. QED
  BY <1>6, <1>7, <1>8, <1>9

(* Without a lossy record the events are those of the tape, under their own *)
(* names or the names that the policy gives them.                           *)
NameOf(i, c) ==
  \/ c = i
  \/ i \in Renamed /\ c = policy.mapping[i]

Lossless == \A n \in DOMAIN records : records[n].result # "TRANSFORMED_LOSSY"

Told ==
  /\ Len(events) = Len(tape)
  /\ \A n \in 1 .. Len(tape) :
       /\ ButForName(events[n], tape[n])
       /\ NameOf(tape[n].instrument_id, events[n].instrument_id)
  /\ \A m, n \in 1 .. Len(tape) :
       tape[m].instrument_id = tape[n].instrument_id
         => events[m].instrument_id = events[n].instrument_id

NamesInv ==
  /\ stage \in {"declaration", "requirement", "refused"} => events = tape
  /\ SymbolsApart /\ Lossless => Told

(* Different instruments never meet under one name.                         *)
LEMMA NamesDiffer ==
  ASSUME SymbolsApart, NEW m \in DOMAIN tape, NEW n \in DOMAIN tape, NEW c,
         NameOf(tape[m].instrument_id, c), NameOf(tape[n].instrument_id, c)
  PROVE  tape[m].instrument_id = tape[n].instrument_id
<1> DEFINE i == tape[m].instrument_id
           j == tape[n].instrument_id
<1>1. PICK u \in ToSet(streams), v \in ToSet(streams) : i \in u.symbols /\ j \in v.symbols
  BY DEF SymbolsApart, ToSet
<1>2. NameOf(i, c) /\ NameOf(j, c)
  OBVIOUS
<1> HIDE DEF i, j
<1>3. ASSUME NEW x, NEW y, NEW t \in ToSet(streams), x \in Renamed, y \in t.symbols,
             policy.mapping[x] = y
      PROVE  FALSE
  <2>1. PICK s : UsedBy(x, s)
    BY <1>3 DEF Renamed
  <2>2. QED
    BY <1>3, <2>1, UsedIs DEF SymbolsApart
<1>4. ASSUME i \in Renamed, j \in Renamed, policy.mapping[i] = policy.mapping[j]
      PROVE  i = j
  <2>1. PICK s, t : UsedBy(i, s) /\ UsedBy(j, t)
    BY <1>4 DEF Renamed
  <2>2. /\ s \in ToSet(streams) /\ i \in s.symbols \cap DOMAIN policy.mapping
        /\ \A k \in s.symbols \cap DOMAIN policy.mapping :
             policy.mapping[i] = policy.mapping[k] => i = k
    BY <2>1, UsedIs
  <2>3. t \in ToSet(streams) /\ j \in t.symbols \cap DOMAIN policy.mapping
    BY <2>1, UsedIs
  <2>4. QED
    BY <1>4, <2>2, <2>3 DEF SymbolsApart
<1>5. i = j
  BY <1>1, <1>2, <1>3, <1>4 DEF NameOf
<1>6. QED
  BY <1>5 DEF i, j

(* A mapping keeps everything of an event but its name, and a name it gives *)
(* is not given away again.                                                 *)
LEMMA MapKeepsNames ==
  ASSUME SymbolsApart, NEW r \in MapRecords, NEW i, NEW c, NameOf(i, c)
  PROVE  NameOf(i, IF c \in DOMAIN r.mapping THEN r.mapping[c] ELSE c)
<1>1. PICK q \in Required, s \in Held :
        r = MapRecord(q, s) /\ MappingValid(s, q.symbols)
  BY DEF MapRecords
<1>2. r.mapping = RelevantMapping(s, q.symbols)
  BY <1>1 DEF MapRecord
<1>3. \A x \in DOMAIN r.mapping : r.mapping[x] = policy.mapping[x] /\ UsedBy(x, s)
  BY <1>1, <1>2 DEF RelevantMapping, Restrict, UsedBy
<1>4. CASE c \notin DOMAIN r.mapping
  BY <1>4
<1>5. CASE c \in DOMAIN r.mapping
  <2>1. r.mapping[c] = policy.mapping[c] /\ UsedBy(c, s)
    BY <1>3, <1>5
  <2>2. CASE c = i
    BY <1>1, <1>5, <2>1, <2>2, UsedIs DEF NameOf, Renamed
  <2>3. CASE i \in Renamed /\ c = policy.mapping[i]
    <3>1. PICK t : UsedBy(i, t)
      BY <2>3 DEF Renamed
    <3>2. /\ t \in ToSet(streams) /\ i \in t.symbols \cap DOMAIN policy.mapping
          /\ policy.mapping[i] \notin t.symbols
      BY <3>1, UsedIs
    <3>3. s \in ToSet(streams) /\ c \in s.symbols
      BY <2>1, UsedIs
    <3>4. FALSE
      BY <2>3, <3>2, <3>3 DEF SymbolsApart
    <3>5. QED
      BY <3>4
  <2>4. QED
    BY <2>2, <2>3 DEF NameOf
<1>6. QED
  BY <1>4, <1>5

(* A step before the plan is made leaves the tape as it is.                 *)
LEMMA ToldOfTape ==
  ASSUME request \in Requests, events = tape
  PROVE  Told
BY DEF Told, NameOf, ButForName

(* A record that is not lossy keeps every event but for its name.           *)
LEMMA ToldApplied ==
  ASSUME request \in Requests, SymbolsApart, Told, events \in Seq(Event),
         NEW r \in PlanRecords, r.result # "TRANSFORMED_LOSSY",
         events' = Applied(r, events), tape' = tape,
         Renamed' = Renamed /\ policy' = policy
  PROVE  Told'
<1>1. CASE r \in {ExactRecord(s) : s \in Held}
  <2>1. events' = events
    BY <1>1 DEF ExactRecord, Applied
  <2>2. QED
    BY <2>1 DEF Told, NameOf
<1>2. CASE r \in ResampleRecords
  BY <1>2 DEF ResampleRecords, ResampleRecord
<1>3. CASE r \in MapRecords
  <2> DEFINE To(c) == IF c \in DOMAIN r.mapping THEN r.mapping[c] ELSE c
             N == Len(tape)
  <2>1. r.result = "TRANSFORMED_LOSSLESS" /\ r.transformation_id = "symbol.map.v1"
    BY <1>3 DEF MapRecords, MapRecord
  <2>2. events' = MapSymbols(events, r.mapping)
    BY <2>1 DEF Applied
  <2>3. \A i \in DOMAIN r.mapping : r.mapping[i] \in DOMAIN InstrumentRank
    BY <2>1, RecordsAre
  <2>4. /\ Len(events') = Len(events) /\ DOMAIN events' = DOMAIN events
        /\ \A n \in DOMAIN events :
             /\ ButForName(events'[n], events[n])
             /\ events'[n].instrument_id = To(events[n].instrument_id)
    BY <2>2, <2>3, MapsIs
  <2>5. Len(events) = N /\ DOMAIN events = 1 .. N /\ \A n \in 1 .. N : events[n] \in Event
    BY DEF Told
  <2>8. ASSUME NEW n \in 1 .. N
        PROVE  /\ events'[n].instrument_id = To(events[n].instrument_id)
               /\ ButForName(events'[n], tape[n])
    <3>1. ButForName(events'[n], events[n]) /\ ButForName(events[n], tape[n])
      BY <2>4, <2>5 DEF Told
    <3>2. QED
      BY <2>4, <2>5, <3>1 DEF ButForName
  <2>9. \A i, c : NameOf(i, c) => NameOf(i, To(c))
    BY <1>3, MapKeepsNames
  <2> HIDE DEF To
  <2>10. ASSUME NEW n \in 1 .. N
         PROVE  NameOf(tape[n].instrument_id, events'[n].instrument_id)
    <3>1. NameOf(tape[n].instrument_id, events[n].instrument_id)
      BY DEF Told
    <3>2. NameOf(tape[n].instrument_id, To(events[n].instrument_id))
      BY <2>9, <3>1
    <3>3. QED
      BY <2>8, <3>2
  <2>11. ASSUME NEW m \in 1 .. N, NEW n \in 1 .. N,
                tape[m].instrument_id = tape[n].instrument_id
         PROVE  events'[m].instrument_id = events'[n].instrument_id
    <3>1. events[m].instrument_id = events[n].instrument_id
      BY <2>11 DEF Told
    <3>2. To(events[m].instrument_id) = To(events[n].instrument_id)
      BY <3>1
    <3>3. QED
      BY <2>8, <3>2
  <2>12. Len(events') = N
    BY <2>4, <2>5
  <2>13. \A n \in 1 .. N : ButForName(events'[n], tape[n])
    BY <2>8
  <2> HIDE DEF N
  <2>14. N' = N
    BY DEF N
  <2>15. QED
    BY <2>10, <2>11, <2>12, <2>13, <2>14 DEF Told, NameOf, N, ButForName
<1>4. QED
  BY <1>1, <1>2, <1>3 DEF PlanRecords

(* Only Apply changes a name, and only for a record that is not lossy.      *)
LEMMA NamesStep == CompileInv /\ PlanInv /\ NamesInv /\ [Next]_vars => NamesInv'
<1> SUFFICES ASSUME CompileInv, PlanInv, NamesInv, [Next]_vars PROVE NamesInv'
  OBVIOUS
<1>1. request \in Requests /\ records \in Seq(PlanRecords) /\ events \in Seq(Event)
  BY DEF CompileInv, PlanInv
<1>2. request' = request
  BY DEF Next, RefuseDeclaration, AcceptDeclaration, RefuseRequirement, AcceptRequirement,
         RefuseSandbox, Refuse, Plan, Apply, ApplyFails, Deliver, Ended, vars
<1>3. tape' = tape /\ (SymbolsApart' <=> SymbolsApart)
  BY <1>2 DEF SymbolsApart, tape, streams, policy
<1>4. Renamed' = Renamed /\ policy' = policy
  BY <1>2 DEF Renamed, UsedBy, Held, Required, MappingValid, RelevantMapping, policy,
              streams, strategy
<1>5. CASE RefuseDeclaration \/ RefuseRequirement \/ RefuseSandbox \/ AcceptDeclaration
           \/ AcceptRequirement \/ Plan
  <2>1. stage \in {"declaration", "requirement"} /\ events' = events
    BY <1>5 DEF RefuseDeclaration, RefuseRequirement, RefuseSandbox, Refuse, AcceptDeclaration,
                AcceptRequirement, Plan
  <2>2. events = tape /\ events' = tape'
    BY <1>3, <2>1 DEF NamesInv
  <2>3. Told
    BY <1>1, <2>2, ToldOfTape
  <2>4. Told'
    BY <1>3, <1>4, <2>1, <2>3 DEF Told, NameOf
  <2>5. QED
    BY <2>2, <2>4 DEF NamesInv
<1>6. CASE Apply
  <2>1. /\ stage = "planned" /\ stage' = stage /\ next \in DOMAIN records
        /\ records' = records /\ events' = Applied(records[next], events)
    BY <1>6 DEF Apply
  <2>2. records[next] \in PlanRecords
    BY <1>1, <2>1
  <2>3. ASSUME SymbolsApart', Lossless' PROVE Told'
    <3>1. SymbolsApart /\ Told /\ records[next].result # "TRANSFORMED_LOSSY"
      BY <1>3, <2>1, <2>3 DEF NamesInv, Lossless
    <3>2. QED
      BY <1>1, <1>3, <1>4, <2>1, <2>2, <3>1, ToldApplied
  <2>4. QED
    BY <2>1, <2>3 DEF NamesInv
<1>7. CASE ApplyFails \/ Deliver \/ UNCHANGED vars
  <2>1. /\ events' = events /\ records' = records
        /\ stage' = stage \/ stage' \in {"failed", "delivered"}
    BY <1>7 DEF ApplyFails, Deliver, vars
  <2>2. Told => Told'
    BY <1>3, <1>4, <2>1 DEF Told, NameOf
  <2>3. QED
    BY <1>3, <2>1, <2>2 DEF NamesInv, Lossless
<1>8. QED
  BY <1>5, <1>6, <1>7 DEF Next, Ended

(* A plan loses nothing that it does not declare, as long as the names of   *)
(* different streams stay apart: without a lossy record every event arrives *)
(* under a name from which its own can be told, and a lossy record has the  *)
(* policy's consent (compatibility.py:11-46, compiler.py:292-330).          *)
THEOREM LossesAreDeclared == Spec => [](SymbolsApart => LossesDeclared)
<1>1. CompileInv /\ PlanInv /\ NamesInv => (SymbolsApart => LossesDeclared)
  <2> SUFFICES ASSUME CompileInv, PlanInv, NamesInv, SymbolsApart PROVE LossesDeclared
    OBVIOUS
  <2>1. request \in Requests /\ records \in Seq(PlanRecords) /\ events \in Seq(Event)
    BY DEF CompileInv, PlanInv
  <2>2. tape \in Seq(Event)
    BY <2>1, RequestsAssumption DEF tape
  <2>3. (\E n \in DOMAIN records : records[n].result = "TRANSFORMED_LOSSY") => policy.allow_lossy
    <3>1. \A n \in DOMAIN records : records[n] \in PlanRecords
      BY <2>1
    <3>2. \A r \in PlanRecords : r.result = "TRANSFORMED_LOSSY" => policy.allow_lossy
      BY <2>1, RecordsAre
    <3>3. QED
      BY <3>1, <3>2
  <2>4. ASSUME \A n \in DOMAIN records : records[n].result # "TRANSFORMED_LOSSY"
        PROVE  /\ Len(events) = Len(tape)
               /\ \A n \in DOMAIN events :
                    [events[n] EXCEPT !.instrument_id = tape[n].instrument_id,
                                      !.source_length = tape[n].source_length] = tape[n]
               /\ \A m, n \in DOMAIN events : Undone(m, n)
    <3>1. Told
      BY <2>4 DEF NamesInv, Lossless
    <3>2. DOMAIN events = 1 .. Len(tape) /\ DOMAIN tape = 1 .. Len(tape)
      BY <2>1, <2>2, <3>1 DEF Told
    <3>3. ASSUME NEW m \in DOMAIN events, NEW n \in DOMAIN events PROVE Undone(m, n)
      <4>1. /\ NameOf(tape[m].instrument_id, events[m].instrument_id)
            /\ NameOf(tape[n].instrument_id, events[n].instrument_id)
        BY <3>1, <3>2 DEF Told
      <4>2. events[m].instrument_id = events[n].instrument_id
              => tape[m].instrument_id = tape[n].instrument_id
        BY <3>2, <4>1, NamesDiffer
      <4>3. QED
        BY <3>1, <3>2, <4>2 DEF Told, Undone
    <3>4. ASSUME NEW n \in DOMAIN events
          PROVE  [events[n] EXCEPT !.instrument_id = tape[n].instrument_id,
                                   !.source_length = tape[n].source_length] = tape[n]
      <4>1. events[n] \in Event /\ tape[n] \in Event /\ ButForName(events[n], tape[n])
        BY <2>1, <2>2, <3>1, <3>2 DEF Told
      <4>2. QED
        BY <4>1 DEF Event, ButForName
    <3>5. QED
      BY <3>1, <3>2, <3>3, <3>4 DEF Told
  <2>5. QED
    BY <2>3, <2>4 DEF LossesDeclared
<1>2. Init => NamesInv
  <2> SUFFICES ASSUME Init PROVE NamesInv
    OBVIOUS
  <2>1. request \in Requests /\ events = tape
    BY DEF Init, tape
  <2>2. QED
    BY <2>1, ToldOfTape DEF NamesInv
<1>3. NamesInv /\ CompileInv /\ PlanInv /\ [Next]_vars => NamesInv'
  BY NamesStep
<1>4. QED
  BY <1>1, <1>2, <1>3, PlanInvariant, PTL DEF Spec

-----------------------------------------------------------------------------
(* The members of a ranked set, in their order.                             *)
Placed(S, before) ==
  [k \in 1 .. Cardinality(S) |-> CHOOSE x \in S : Cardinality(before[x]) = k - 1]

LEMMA Enumerated ==
  ASSUME NEW S, IsFiniteSet(S), NEW before, Ranking(S, before)
  PROVE  LET at == Placed(S, before)
         IN /\ at \in [1 .. Cardinality(S) -> S]
            /\ \A k \in 1 .. Cardinality(S) : Cardinality(before[at[k]]) = k - 1
            /\ \A x \in S : \E k \in 1 .. Cardinality(S) : at[k] = x
            /\ \A j, k \in 1 .. Cardinality(S) : at[j] \in before[at[k]] <=> j < k
<1> DEFINE C == Cardinality(S)
           at == Placed(S, before)
<1>1. C \in Nat
  BY FS_CardinalityType
<1>2. /\ \A k \in 1 .. C : \E x \in S : Cardinality(before[x]) = k - 1
      /\ \A x, y \in S : Cardinality(before[x]) < Cardinality(before[y]) => x \in before[y]
      /\ \A x, y \in S : Cardinality(before[x]) = Cardinality(before[y]) => x = y
  BY Ranked
<1>3. ASSUME NEW k \in 1 .. C PROVE at[k] \in S /\ Cardinality(before[at[k]]) = k - 1
  BY <1>2 DEF Placed
<1> DEFINE Chosen(k) == CHOOSE x \in S : Cardinality(before[x]) = k - 1
<1>4. at \in [1 .. C -> S]
  <2>1. at = [k \in 1 .. C |-> Chosen(k)] /\ \A k \in 1 .. C : Chosen(k) \in S
    BY <1>2 DEF Placed
  <2> HIDE DEF Chosen, at
  <2>2. QED
    BY <2>1
<1> HIDE DEF Chosen, at
<1>5. ASSUME NEW x \in S PROVE \E k \in 1 .. C : at[k] = x
  <2>1. before[x] \in SUBSET S /\ x \notin before[x]
    BY DEF Ranking
  <2>2. /\ IsFiniteSet(before[x]) /\ Cardinality(before[x]) <= C
        /\ C = Cardinality(before[x]) => S = before[x]
    BY <2>1, FS_Subset
  <2>3. Cardinality(before[x]) \in Nat /\ Cardinality(before[x]) # C
    BY <2>1, <2>2, FS_CardinalityType
  <2>4. PICK k \in 1 .. C : Cardinality(before[x]) = k - 1
    <3>1. Cardinality(before[x]) + 1 \in 1 .. C
          /\ Cardinality(before[x]) = (Cardinality(before[x]) + 1) - 1
      BY <1>1, <2>2, <2>3
    <3>2. QED
      BY <3>1
  <2>5. QED
    BY <1>2, <1>3, <2>4
<1>6. ASSUME NEW j \in 1 .. C, NEW k \in 1 .. C PROVE at[j] \in before[at[k]] <=> j < k
  <2>1. j - 1 < k - 1 <=> j < k
    BY <1>1
  <2>2. j < k => at[j] \in before[at[k]]
    BY <1>2, <1>3, <2>1
  <2>3. k < j => at[k] \in before[at[j]]
    <3>1. k < j => k - 1 < j - 1
      BY <1>1
    <3>2. QED
      BY <1>2, <1>3, <3>1
  <2>4. at[j] \notin before[at[j]]
    BY <1>3 DEF Ranking
  <2>5. ~(at[j] \in before[at[k]] /\ at[k] \in before[at[j]])
    <3>1. at[j] \in before[at[k]] => before[at[j]] \subseteq before[at[k]]
      BY <1>3 DEF Ranking
    <3>2. at[k] \notin before[at[k]]
      BY <1>3 DEF Ranking
    <3>3. QED
      BY <3>1, <3>2
  <2>6. j < k \/ j = k \/ k < j
    BY <1>1
  <2>7. j = k => ~(j < k)
    BY <1>1
  <2>8. QED
    BY <2>2, <2>3, <2>4, <2>5, <2>6, <2>7
<1>7. QED
  BY <1>3, <1>4, <1>5, <1>6 DEF at

(* What a sort puts at a position has that many before it, less itself.     *)
LEMMA OrderedAt ==
  ASSUME NEW tuple \in Seq(Event), NEW P \in SUBSET DOMAIN tuple, NEW k \in 1 .. Cardinality(P)
  PROVE  \E n \in P : /\ Ordered(tuple, P)[k] = tuple[n]
                      /\ Cardinality(Ahead(tuple, P)[n]) = k - 1
<1> DEFINE At == CHOOSE n \in P : Cardinality({m \in P : Precedes(tuple, m, n)}) = k - 1
<1>1. IsFiniteSet(P) /\ Cardinality(P) \in Nat /\ Ranking(P, Ahead(tuple, P))
  BY PositionsRanked
<1>2. PICK n \in P : Cardinality(Ahead(tuple, P)[n]) = k - 1
  BY <1>1, Ranked
<1>3. Cardinality({m \in P : Precedes(tuple, m, n)}) = k - 1
  BY <1>2 DEF Ahead
<1>4. At \in P /\ Cardinality({m \in P : Precedes(tuple, m, At)}) = k - 1
  BY <1>3
<1>5. Ordered(tuple, P)[k] = tuple[At]
  BY DEF Ordered
<1> HIDE DEF At
<1>6. QED
  BY <1>4, <1>5 DEF Ahead

(* Two sorts of the same positions under other numbers agree, position by   *)
(* position.                                                                *)
Corresponds(h, X, P, Y, Q) ==
  /\ h \in [P -> Q]
  /\ \A m \in Q : \E n \in P : h[n] = m
  /\ \A m, n \in P : Precedes(X, m, n) <=> Precedes(Y, h[m], h[n])

LEMMA SameOrder ==
  ASSUME NEW X \in Seq(Event), NEW Y \in Seq(Event), NEW P \in SUBSET DOMAIN X,
         NEW Q \in SUBSET DOMAIN Y, NEW h, Corresponds(h, X, P, Y, Q)
  PROVE  /\ Cardinality(Q) = Cardinality(P)
         /\ \A k \in 1 .. Cardinality(P) :
              \E n \in P : Ordered(X, P)[k] = X[n] /\ Ordered(Y, Q)[k] = Y[h[n]]
<1> DEFINE aX == Ahead(X, P)
           aY == Ahead(Y, Q)
<1>0. /\ h \in [P -> Q] /\ \A m \in Q : \E n \in P : h[n] = m
      /\ \A m, n \in P : Precedes(X, m, n) <=> Precedes(Y, h[m], h[n])
  BY DEF Corresponds
<1>1. /\ IsFiniteSet(P) /\ Cardinality(P) \in Nat /\ Ranking(P, aX)
      /\ IsFiniteSet(Q) /\ Ranking(Q, aY)
  BY PositionsRanked
<1>2. /\ \A n \in P : aX[n] = {m \in P : Precedes(X, m, n)}
      /\ \A n \in Q : aY[n] = {m \in Q : Precedes(Y, m, n)}
  BY DEF Ahead
<1> HIDE DEF aX, aY
<1>6. ASSUME NEW m \in P, NEW n \in P, h[m] = h[n] PROVE m = n
  <2>1. ~Precedes(Y, h[m], h[n]) /\ ~Precedes(Y, h[n], h[m])
    BY <1>0, <1>1, <1>2, <1>6 DEF Ranking
  <2>2. m \notin aX[n] /\ n \notin aX[m]
    BY <1>0, <1>2, <2>1
  <2>3. QED
    BY <1>1, <2>2 DEF Ranking
<1>7. h \in Bijection(P, Q)
  BY <1>0, <1>6 DEF Bijection, Injection, Surjection, IsInjective
<1>8. Cardinality(Q) = Cardinality(P)
  BY <1>1, <1>7, FS_Bijection DEF ExistsBijection
<1>9. ASSUME NEW n \in P PROVE Cardinality(aY[h[n]]) = Cardinality(aX[n])
  <2> DEFINE f == [m \in aX[n] |-> h[m]]
  <2>1. aX[n] \in SUBSET P
    BY <1>2
  <2>2. \A m \in aX[n] : f[m] \in aY[h[n]]
    BY <1>0, <1>2
  <2>3. \A l \in aY[h[n]] : \E m \in aX[n] : f[m] = l
    BY <1>0, <1>2
  <2>4. f \in [aX[n] -> aY[h[n]]]
    BY <2>2
  <2>5. \A l, m \in aX[n] : f[l] = f[m] => l = m
    BY <1>6, <2>1
  <2> HIDE DEF f
  <2>6. f \in Bijection(aX[n], aY[h[n]])
    BY <2>3, <2>4, <2>5 DEF Bijection, Injection, Surjection, IsInjective
  <2>7. IsFiniteSet(aX[n])
    BY <1>1, <2>1, FS_Subset
  <2>8. QED
    BY <2>6, <2>7, FS_Bijection DEF ExistsBijection
<1>10. ASSUME NEW k \in 1 .. Cardinality(P)
       PROVE  \E n \in P : Ordered(X, P)[k] = X[n] /\ Ordered(Y, Q)[k] = Y[h[n]]
  <2>1. PICK n \in P : Ordered(X, P)[k] = X[n] /\ Cardinality(aX[n]) = k - 1
    BY OrderedAt DEF aX
  <2>2. PICK m \in Q : Ordered(Y, Q)[k] = Y[m] /\ Cardinality(aY[m]) = k - 1
    BY <1>8, OrderedAt DEF aY
  <2>3. Cardinality(aY[h[n]]) = k - 1 /\ h[n] \in Q
    BY <1>0, <1>9, <2>1
  <2>4. h[n] = m
    BY <1>1, <2>2, <2>3, Ranked
  <2>5. QED
    BY <2>1, <2>2, <2>4
<1>11. QED
  BY <1>8, <1>10

-----------------------------------------------------------------------------
(* Two events that differ in nothing but their numbers.                     *)
Alike(e, f) ==
  /\ e.instrument_id = f.instrument_id /\ e.event_time = f.event_time
  /\ e.available_time = f.available_time /\ e.source = f.source /\ e.payload = f.payload

(* Bars that are alike merge alike.                                         *)
LEMMA MergedAlike ==
  ASSUME NEW G \in Seq(Event), NEW H \in Seq(Event), Len(G) \in Nat \ {0}, Len(H) = Len(G),
         \A k \in 1 .. Len(G) : Alike(G[k], H[k]), NEW key, NEW interval, NEW s, NEW t
  PROVE  Alike(MergedBar(G, key, interval, s), MergedBar(H, key, interval, t))
<1> DEFINE N == Len(G)
<1>1. /\ N \in Nat /\ 1 \in 1 .. N /\ N \in 1 .. N /\ DOMAIN G = 1 .. N /\ DOMAIN H = 1 .. N
      /\ ToSet(G) = {G[k] : k \in 1 .. N} /\ ToSet(H) = {H[k] : k \in 1 .. N}
  BY DEF ToSet
<1>2. \A k \in 1 .. N : /\ G[k].available_time = H[k].available_time
                        /\ G[k].payload = H[k].payload /\ G[k].source = H[k].source
  BY DEF Alike
<1>3. VolumeOf(G) = VolumeOf(H)
  <2>1. PICK g \in [0 .. Len(G) -> Nat] :
          /\ g[0] = 0 /\ VolumeOf(G) = g[Len(G)]
          /\ \A k \in 1 .. Len(G) : g[k] = g[k - 1] + G[k].payload.volume
    BY VolumeSums
  <2>2. PICK f \in [0 .. Len(H) -> Nat] :
          /\ f[0] = 0 /\ VolumeOf(H) = f[Len(H)]
          /\ \A k \in 1 .. Len(H) : f[k] = f[k - 1] + H[k].payload.volume
    BY VolumeSums
  <2> DEFINE S == {k \in Nat : k <= N => g[k] = f[k]}
  <2>3. 0 \in S
    BY <2>1, <2>2
  <2>4. ASSUME NEW k \in Nat, k \in S PROVE k + 1 \in S
    <3>1. CASE k + 1 <= N
      <4>1. k + 1 \in 1 .. N /\ (k + 1) - 1 = k /\ k <= N
        BY <1>1, <3>1
      <4>2. g[k] = f[k]
        BY <2>4, <4>1
      <4>3. g[k + 1] = g[k] + G[k + 1].payload.volume
        BY <2>1, <4>1
      <4>4. f[k + 1] = f[k] + H[k + 1].payload.volume
        BY <2>2, <4>1
      <4>5. QED
        BY <1>2, <4>1, <4>2, <4>3, <4>4
    <3>2. QED
      BY <3>1
  <2> HIDE DEF S
  <2>5. N \in S
    BY <1>1, <2>3, <2>4, Inductive
  <2>6. QED
    BY <1>1, <2>1, <2>2, <2>5 DEF S
<1> HIDE DEF N
<1>4. /\ {e.available_time : e \in ToSet(G)} = {e.available_time : e \in ToSet(H)}
      /\ {e.payload.high : e \in ToSet(G)} = {e.payload.high : e \in ToSet(H)}
      /\ {e.payload.low : e \in ToSet(G)} = {e.payload.low : e \in ToSet(H)}
  <2>1. {e.available_time : e \in ToSet(G)} = {e.available_time : e \in ToSet(H)}
    BY <1>1, <1>2
  <2>2. {e.payload.high : e \in ToSet(G)} = {e.payload.high : e \in ToSet(H)}
    BY <1>1, <1>2
  <2>3. {e.payload.low : e \in ToSet(G)} = {e.payload.low : e \in ToSet(H)}
    BY <1>1, <1>2
  <2>4. QED
    BY <2>1, <2>2, <2>3
<1>5. MergedPayload(G) = MergedPayload(H)
  BY <1>1, <1>2, <1>3, <1>4 DEF MergedPayload, VolumeOf, N
<1>6. AvailableTime(G) = AvailableTime(H) /\ G[1].source = H[1].source
  BY <1>1, <1>2, <1>4 DEF AvailableTime
<1>7. QED
  BY <1>5, <1>6 DEF MergedBar, Alike

(* The bar of a key is numbered by the keys before it.                      *)
LEMMA BarAt ==
  ASSUME NEW tuple \in Seq(Event), NEW interval \in Nat \ {0},
         NEW n \in 1 .. Cardinality(Keys(tuple, interval))
  PROVE  LET key == Placed(Keys(tuple, interval), KeysBefore(tuple, interval))[n]
         IN Numbered(tuple, interval)[n]
              = MergedBar(Group(tuple, key, interval), key, interval, n - 1)
<1> DEFINE K == Keys(tuple, interval)
           before == KeysBefore(tuple, interval)
           At == CHOOSE k \in K : Cardinality({l \in K : KeyBefore(l, k)}) = n - 1
           key == Placed(K, before)[n]
<1>1. IsFiniteSet(K) /\ Ranking(K, before)
  BY KeysAre
<1>2. key \in K /\ Cardinality(before[key]) = n - 1
  <2>1. n \in 1 .. Cardinality(K)
    OBVIOUS
  <2> HIDE DEF K, before
  <2>2. /\ Placed(K, before) \in [1 .. Cardinality(K) -> K]
        /\ \A m \in 1 .. Cardinality(K) : Cardinality(before[Placed(K, before)[m]]) = m - 1
    BY <1>1, Enumerated
  <2>3. QED
    BY <2>1, <2>2
<1>3. Cardinality({l \in K : KeyBefore(l, key)}) = n - 1
  BY <1>2 DEF KeysBefore
<1>4. At \in K /\ Cardinality({l \in K : KeyBefore(l, At)}) = n - 1
  BY <1>2, <1>3
<1>5. Cardinality(before[At]) = n - 1
  BY <1>4 DEF KeysBefore
<1>6. Numbered(tuple, interval)[n] = MergedBar(Group(tuple, At, interval), At, interval, n - 1)
  BY DEF Numbered, Keys
<1> HIDE DEF At, K, before
<1>7. At = key
  BY <1>1, <1>2, <1>4, <1>5, Ranked
<1>8. QED
  BY <1>6, <1>7 DEF K, before

(* resample_bars merges the bars of each key once, and orders the bars by   *)
(* availability and, of those available together, by instrument and         *)
(* interval.                                                                *)
LEMMA BarsAre ==
  ASSUME NEW tuple \in Seq(Event), NEW interval \in Nat \ {0}
  PROVE  LET bars == Resampled(tuple, interval)
         IN \E key \in [DOMAIN bars -> Keys(tuple, interval)] :
              /\ \A k \in Keys(tuple, interval) : \E i \in DOMAIN bars : key[i] = k
              /\ \A i \in DOMAIN bars :
                   bars[i] = MergedBar(Group(tuple, key[i], interval), key[i], interval,
                                       bars[i].sequence)
              /\ \A i, j \in DOMAIN bars :
                   Precedes(bars, i, j) <=>
                     \/ bars[i].available_time < bars[j].available_time
                     \/ /\ bars[i].available_time = bars[j].available_time
                        /\ KeyBefore(key[i], key[j])
<1> DEFINE K == Keys(tuple, interval)
           before == KeysBefore(tuple, interval)
           C == Cardinality(K)
           numbered == Numbered(tuple, interval)
           P == DOMAIN numbered
           bars == Resampled(tuple, interval)
           keyAt == Placed(K, before)
<1>1. IsFiniteSet(K) /\ Ranking(K, before) /\ C \in Nat
  BY KeysAre, FS_CardinalityType
<1>2. /\ keyAt \in [1 .. C -> K]
      /\ \A k \in K : \E n \in 1 .. C : keyAt[n] = k
      /\ \A m, n \in 1 .. C : keyAt[m] \in before[keyAt[n]] <=> m < n
  <2> HIDE DEF K, before
  <2>1. QED
    BY <1>1, Enumerated
<1>3. \A m, n \in 1 .. C : KeyBefore(keyAt[m], keyAt[n]) <=> m < n
  BY <1>2 DEF KeysBefore
<1>4. /\ numbered \in Seq(Event) /\ P = 1 .. C
      /\ \A n \in P : numbered[n].sequence = n - 1
  <2>1. P = 1 .. C
    BY DEF Numbered, Keys
  <2>2. QED
    BY <2>1, NumberedIs
<1>5. \A n \in P : numbered[n] = MergedBar(Group(tuple, keyAt[n], interval), keyAt[n],
                                           interval, n - 1)
  BY <1>4, BarAt
<1>6. bars = Ordered(numbered, P)
  BY DEF Resampled
<1>7. bars \in Seq(Event) /\ InOrder(bars)
  BY ResampledIs
<1> HIDE DEF K, before, C, numbered, bars, keyAt
<1>8. PICK at \in [1 .. Cardinality(P) -> P] :
        /\ DOMAIN bars = 1 .. Cardinality(P)
        /\ \A i \in 1 .. Cardinality(P) : bars[i] = numbered[at[i]]
        /\ \A n \in P : \E i \in 1 .. Cardinality(P) : at[i] = n
  <2>1. P \in SUBSET DOMAIN numbered
    OBVIOUS
  <2> HIDE DEF P
  <2>2. DOMAIN Ordered(numbered, P) = 1 .. Cardinality(P)
    BY <1>4, <2>1, OrderedIs
  <2>3. \E at \in [1 .. Cardinality(P) -> P] :
          /\ \A i \in 1 .. Cardinality(P) : Ordered(numbered, P)[i] = numbered[at[i]]
          /\ \A n \in P : \E i \in 1 .. Cardinality(P) : at[i] = n
          /\ \A i, j \in 1 .. Cardinality(P) : i < j => Precedes(numbered, at[i], at[j])
    <3>1. numbered \in Seq(Event)
      BY <1>4
    <3>2. QED
      BY <2>1, <3>1, OrderedIs, ZenonT(30)
  <2>4. DOMAIN bars = 1 .. Cardinality(P)
    BY <1>6, <2>2
  <2>5. \E at \in [1 .. Cardinality(P) -> P] :
          /\ \A i \in 1 .. Cardinality(P) : bars[i] = numbered[at[i]]
          /\ \A n \in P : \E i \in 1 .. Cardinality(P) : at[i] = n
    BY <1>6, <2>3
  <2>6. QED
    BY <2>4, <2>5
<1> DEFINE D == DOMAIN bars
           key == [i \in D |-> keyAt[at[i]]]
<1>9. /\ at \in [D -> P] /\ \A n \in P : \E i \in D : at[i] = n
      /\ \A i \in D : bars[i] = numbered[at[i]] /\ at[i] \in P /\ i \in Int
  BY <1>7, <1>8
<1> HIDE DEF P, D
<1>10. key \in [D -> K] /\ \A k \in K : \E i \in D : key[i] = k
  <2>1. \A i \in D : at[i] \in 1 .. C /\ keyAt[at[i]] \in K /\ key[i] = keyAt[at[i]]
    BY <1>2, <1>4, <1>9
  <2>2. key \in [D -> K]
    BY <2>1
  <2>3. ASSUME NEW k \in K PROVE \E i \in D : key[i] = k
    <3>1. PICK n \in 1 .. C : keyAt[n] = k
      BY <1>2
    <3>2. PICK i \in D : at[i] = n
      BY <1>4, <1>9, <3>1
    <3>3. QED
      BY <2>1, <3>1, <3>2
  <2>4. QED
    BY <2>2, <2>3
<1>11. ASSUME NEW i \in D
       PROVE  /\ bars[i].sequence = at[i] - 1
              /\ bars[i] = MergedBar(Group(tuple, key[i], interval), key[i], interval,
                                     bars[i].sequence)
  <2>1. at[i] \in P /\ key[i] = keyAt[at[i]] /\ bars[i] = numbered[at[i]]
    BY <1>9
  <2>2. numbered[at[i]] = MergedBar(Group(tuple, key[i], interval), key[i], interval, at[i] - 1)
    BY <1>5, <2>1
  <2>3. bars[i].sequence = at[i] - 1
    BY <1>4, <2>1
  <2> HIDE DEF key
  <2>4. QED
    BY <2>1, <2>2, <2>3
<1>12. ASSUME NEW i \in D, NEW j \in D
       PROVE  Precedes(bars, i, j) <=>
                \/ bars[i].available_time < bars[j].available_time
                \/ /\ bars[i].available_time = bars[j].available_time
                   /\ KeyBefore(key[i], key[j])
  <2>1. KeyBefore(key[i], key[j]) <=> at[i] < at[j]
    BY <1>3, <1>4, <1>9
  <2>2. at[i] \in Int /\ at[j] \in Int /\ i \in Int /\ j \in Int
    <3>1. at[i] \in P /\ at[j] \in P /\ i \in Int /\ j \in Int
      BY <1>9
    <3>2. \A n \in 1 .. C : n \in Int
      BY <1>1
    <3>3. QED
      BY <1>4, <3>1, <3>2
  <2>3. at[i] - 1 < at[j] - 1 <=> at[i] < at[j]
    BY <2>2
  <2>4. KeyBefore(key[i], key[j]) <=> bars[i].sequence < bars[j].sequence
    BY <1>11, <2>1, <2>3
  <2>5. /\ bars[i].available_time \in Int /\ bars[j].available_time \in Int
        /\ bars[i].sequence \in Int /\ bars[j].sequence \in Int
    <3>1. \A e \in Event : e.available_time \in Int /\ e.sequence \in Int
      BY DEF Event
    <3>2. bars[i] \in Event /\ bars[j] \in Event
      BY <1>7 DEF D
    <3>3. QED
      BY <3>1, <3>2
  <2>6. Earlier(bars[i], bars[j]) <=>
          \/ bars[i].available_time < bars[j].available_time
          \/ /\ bars[i].available_time = bars[j].available_time
             /\ KeyBefore(key[i], key[j])
    BY <2>4 DEF Earlier
  <2>7. i < j => Earlier(bars[i], bars[j])
    BY <1>7 DEF InOrder, D
  <2>8. QED
    BY <2>6, <2>7 DEF Precedes
<1>13. QED
  BY <1>10, <1>11, <1>12 DEF bars, K, D

(* Y is what the events of X that are available at a time have become: each *)
(* of them is there, under a number of its own and in the same order, and   *)
(* whatever else is there stands for something that was not yet available.  *)
Kept(X, a) == {n \in DOMAIN X : X[n].available_time <= a}

CutBy(X, Y, a, h) ==
  /\ h \in [Kept(X, a) -> DOMAIN Y]
  /\ \A n \in Kept(X, a) : Alike(X[n], Y[h[n]])
  /\ \A m, n \in Kept(X, a) : Precedes(X, m, n) <=> Precedes(Y, h[m], h[n])
  /\ \A l \in DOMAIN Y :
       \/ \E n \in Kept(X, a) : h[n] = l
       \/ \E n \in DOMAIN X \ Kept(X, a) : /\ X[n].instrument_id = Y[l].instrument_id
                                           /\ X[n].event_time = Y[l].event_time

Cut(X, Y, a) == \E h : CutBy(X, Y, a, h)

(* A merged bar is available when the last of its bars is.                  *)
LEMMA BarAvailable ==
  ASSUME NEW tuple \in Seq(Event), NEW interval \in Nat \ {0}, NEW a \in Nat,
         NEW key \in Keys(tuple, interval)
  PROVE  AvailableTime(Group(tuple, key, interval)) <= a <=>
           \A n \in DOMAIN tuple :
             Key(tuple[n], interval) = key => tuple[n].available_time <= a
<1> DEFINE P == {n \in DOMAIN tuple : Key(tuple[n], interval) = key}
           group == Group(tuple, key, interval)
           N == Len(group)
           f == [k \in 1 .. N |-> group[k].available_time]
           S == {f[k] : k \in 1 .. N}
<1>1. P \in SUBSET DOMAIN tuple /\ group = Ordered(tuple, P)
  BY DEF Group
<1>2. group \in Seq(Event) /\ N \in Nat \ {0} /\ DOMAIN group = 1 .. N
  BY GroupIs
<1>3. \A e \in Event : e.available_time \in Nat
  BY DEF Event
<1> HIDE DEF P, group
<1>4. N = Cardinality(P)
  BY <1>1, OrderedIs
<1>5. PICK at \in [1 .. N -> P] :
        /\ \A k \in 1 .. N : group[k] = tuple[at[k]]
        /\ \A n \in P : \E k \in 1 .. N : at[k] = n
        /\ \A j, k \in 1 .. N : j < k => Precedes(tuple, at[j], at[k])
  <2>1. \E at \in [1 .. Cardinality(P) -> P] :
          /\ \A k \in 1 .. Cardinality(P) : Ordered(tuple, P)[k] = tuple[at[k]]
          /\ \A n \in P : \E k \in 1 .. Cardinality(P) : at[k] = n
          /\ \A j, k \in 1 .. Cardinality(P) : j < k => Precedes(tuple, at[j], at[k])
    BY <1>1, OrderedIs, ZenonT(30)
  <2>2. QED
    BY <1>1, <1>4, <2>1
<1>6. f \in [1 .. N -> Nat] /\ \A k \in 1 .. N : f[k] = group[k].available_time
  BY <1>2, <1>3
<1>7. {e.available_time : e \in ToSet(group)} = S
  BY <1>2, <1>6 DEF ToSet
<1> HIDE DEF f, N
<1>8. Max(S) \in S /\ (\A y \in S : y <= Max(S)) /\ Max(S) \in Nat
  BY <1>2, <1>6, Extremes
<1>9. AvailableTime(group) = Max(S)
  BY <1>7 DEF AvailableTime
<1>10. \A n \in P : tuple[n].available_time \in S
  BY <1>5, <1>6
<1>11. PICK last \in P : tuple[last].available_time = Max(S)
  <2>1. PICK k \in 1 .. N : Max(S) = f[k]
    BY <1>8
  <2>2. at[k] \in P /\ tuple[at[k]].available_time = f[k]
    BY <1>5, <1>6
  <2>3. QED
    BY <2>1, <2>2
<1>12. \A n \in P : tuple[n].available_time \in Nat
  BY <1>1, <1>3
<1>13. Max(S) <= a <=> \A n \in P : tuple[n].available_time <= a
  <2> DEFINE max == Max(S)
  <2>1. /\ max \in Nat /\ (\A n \in P : tuple[n].available_time <= max)
        /\ tuple[last].available_time = max
    BY <1>8, <1>10, <1>11
  <2> HIDE DEF max
  <2>2. max <= a => \A n \in P : tuple[n].available_time <= a
    BY <1>12, <2>1
  <2>3. (\A n \in P : tuple[n].available_time <= a) => max <= a
    BY <2>1
  <2>4. QED
    BY <2>2, <2>3 DEF max
<1>14. QED
  BY <1>9, <1>13 DEF P, group

(* A bar that is available is made of the same events, alike.               *)
LEMMA GroupsAlike ==
  ASSUME NEW X \in Seq(Event), NEW Y \in Seq(Event), NEW a \in Nat, NEW h, CutBy(X, Y, a, h),
         NEW interval \in Nat \ {0}, NEW key \in Keys(X, interval),
         \A n \in DOMAIN X : Key(X[n], interval) = key => X[n].available_time <= a
  PROVE  /\ key \in Keys(Y, interval)
         /\ \A s, t : Alike(MergedBar(Group(X, key, interval), key, interval, s),
                            MergedBar(Group(Y, key, interval), key, interval, t))
<1> DEFINE P == {n \in DOMAIN X : Key(X[n], interval) = key}
           Q == {n \in DOMAIN Y : Key(Y[n], interval) = key}
           g == [n \in P |-> h[n]]
           G == Group(X, key, interval)
           H == Group(Y, key, interval)
<1>1. \A e, f : e.instrument_id = f.instrument_id /\ e.event_time = f.event_time
                  => Key(e, interval) = Key(f, interval)
  BY DEF Key, Bucket
<1>2. P \in SUBSET DOMAIN X /\ Q \in SUBSET DOMAIN Y /\ P \subseteq Kept(X, a)
  BY DEF Kept
<1>3. /\ \A n \in Kept(X, a) : h[n] \in DOMAIN Y /\ Alike(X[n], Y[h[n]])
      /\ \A m, n \in Kept(X, a) : Precedes(X, m, n) <=> Precedes(Y, h[m], h[n])
  BY DEF CutBy
<1>4. \A n \in Kept(X, a) : Key(Y[h[n]], interval) = Key(X[n], interval)
  BY <1>1, <1>3 DEF Alike
<1>5. ASSUME NEW n \in P PROVE h[n] \in Q
  BY <1>2, <1>3, <1>4
<1>6. ASSUME NEW l \in Q PROVE \E n \in P : g[n] = l
  <2>1. CASE \E n \in Kept(X, a) : h[n] = l
    <3>1. PICK n \in Kept(X, a) : h[n] = l
      BY <2>1
    <3>2. n \in P
      BY <1>4, <3>1 DEF Kept
    <3>3. QED
      BY <3>1, <3>2
  <2>2. CASE \E n \in DOMAIN X \ Kept(X, a) : /\ X[n].instrument_id = Y[l].instrument_id
                                              /\ X[n].event_time = Y[l].event_time
    <3>1. PICK n \in DOMAIN X \ Kept(X, a) : /\ X[n].instrument_id = Y[l].instrument_id
                                             /\ X[n].event_time = Y[l].event_time
      BY <2>2
    <3>2. Key(X[n], interval) = key
      BY <1>1, <3>1
    <3>3. n \in Kept(X, a)
      BY <3>1, <3>2 DEF Kept
    <3>4. QED
      BY <3>1, <3>3
  <2>3. QED
    BY <2>1, <2>2 DEF CutBy
<1>7. g \in [P -> Q] /\ \A n \in P : g[n] = h[n]
  BY <1>5
<1>8. P # {}
  BY DEF Keys
<1>9. key \in Keys(Y, interval)
  BY <1>5, <1>8 DEF Keys
<1>10. G = Ordered(X, P) /\ H = Ordered(Y, Q)
  BY DEF Group
<1>11. G \in Seq(Event) /\ Len(G) \in Nat \ {0} /\ H \in Seq(Event)
  BY <1>9, GroupIs
<1> HIDE DEF P, Q, g, G, H
<1>12. \A m, n \in P : Precedes(X, m, n) <=> Precedes(Y, g[m], g[n])
  BY <1>2, <1>3, <1>7
<1>13. /\ Cardinality(Q) = Cardinality(P)
       /\ \A k \in 1 .. Cardinality(P) :
            \E n \in P : Ordered(X, P)[k] = X[n] /\ Ordered(Y, Q)[k] = Y[g[n]]
  <2>1. \A l \in Q : \E n \in P : g[n] = l
    BY <1>6
  <2>2. g \in [P -> Q]
    BY <1>7
  <2>3. QED
    <3>1. Corresponds(g, X, P, Y, Q)
      BY <1>12, <2>1, <2>2 DEF Corresponds
    <3>2. QED
      BY <1>2, <3>1, SameOrder
<1>14. Len(G) = Cardinality(P) /\ Len(H) = Cardinality(Q)
  BY <1>2, <1>10, OrderedIs
<1>15. ASSUME NEW k \in 1 .. Len(G) PROVE Alike(G[k], H[k])
  <2>1. PICK n \in P : G[k] = X[n] /\ H[k] = Y[g[n]]
    BY <1>10, <1>13, <1>14
  <2>2. QED
    BY <1>2, <1>3, <1>7, <2>1
<1>16. Len(H) = Len(G)
  BY <1>13, <1>14
<1>17. \A s, t : Alike(MergedBar(G, key, interval, s), MergedBar(H, key, interval, t))
  BY <1>11, <1>15, <1>16, MergedAlike
<1>18. QED
  BY <1>9, <1>17 DEF G, H

(* A symbol map keeps a cut.                                                *)
LEMMA MapCut ==
  ASSUME NEW X \in Seq(Event), NEW Y \in Seq(Event), NEW a \in Nat, Cut(X, Y, a), NEW mapping,
         \A i \in DOMAIN mapping : mapping[i] \in DOMAIN InstrumentRank
  PROVE  Cut(MapSymbols(X, mapping), MapSymbols(Y, mapping), a)
<1> DEFINE S == MapSymbols(X, mapping)
           T == MapSymbols(Y, mapping)
           To(i) == IF i \in DOMAIN mapping THEN mapping[i] ELSE i
<1>1. PICK h : CutBy(X, Y, a, h)
  BY DEF Cut
<1>2. ASSUME NEW Z \in Seq(Event), NEW n \in DOMAIN Z
      PROVE  LET e == MapSymbols(Z, mapping)[n]
             IN /\ e.instrument_id = To(Z[n].instrument_id) /\ e.event_time = Z[n].event_time
                /\ e.available_time = Z[n].available_time /\ e.sequence = Z[n].sequence
                /\ e.source = Z[n].source /\ e.payload = Z[n].payload
  <2>1. Z[n] \in Event
    OBVIOUS
  <2>2. QED
    BY <2>1 DEF MapSymbols, Event
<1>3. DOMAIN S = DOMAIN X /\ DOMAIN T = DOMAIN Y
  BY DEF MapSymbols
<1> HIDE DEF To, S, T
<1>4. \A n \in DOMAIN X :
        /\ S[n].instrument_id = To(X[n].instrument_id) /\ S[n].event_time = X[n].event_time
        /\ S[n].available_time = X[n].available_time /\ S[n].sequence = X[n].sequence
        /\ S[n].source = X[n].source /\ S[n].payload = X[n].payload
  BY <1>2 DEF S
<1>5. \A n \in DOMAIN Y :
        /\ T[n].instrument_id = To(Y[n].instrument_id) /\ T[n].event_time = Y[n].event_time
        /\ T[n].available_time = Y[n].available_time /\ T[n].sequence = Y[n].sequence
        /\ T[n].source = Y[n].source /\ T[n].payload = Y[n].payload
  BY <1>2 DEF T
<1>6. Kept(S, a) = Kept(X, a)
  BY <1>3, <1>4 DEF Kept
<1>7. \A n \in Kept(X, a) : n \in DOMAIN X /\ h[n] \in DOMAIN Y /\ Alike(X[n], Y[h[n]])
  BY <1>1 DEF CutBy, Kept
<1>8. \A n \in Kept(X, a) : Alike(S[n], T[h[n]])
  BY <1>4, <1>5, <1>7 DEF Alike
<1>9. /\ \A m, n \in DOMAIN X : Precedes(S, m, n) <=> Precedes(X, m, n)
      /\ \A m, n \in DOMAIN Y : Precedes(T, m, n) <=> Precedes(Y, m, n)
  BY <1>4, <1>5 DEF Precedes, Earlier
<1>10. \A m, n \in Kept(X, a) : Precedes(S, m, n) <=> Precedes(T, h[m], h[n])
  BY <1>1, <1>7, <1>9 DEF CutBy
<1>11. ASSUME NEW l \in DOMAIN Y
       PROVE  \/ \E n \in Kept(X, a) : h[n] = l
              \/ \E n \in DOMAIN X \ Kept(X, a) : /\ S[n].instrument_id = T[l].instrument_id
                                                  /\ S[n].event_time = T[l].event_time
  BY <1>1, <1>4, <1>5 DEF CutBy
<1>12. CutBy(S, T, a, h)
  BY <1>1, <1>3, <1>6, <1>8, <1>10, <1>11 DEF CutBy
<1>13. QED
  BY <1>12 DEF Cut, S, T

(* The merged bars of a tape, each with its key, as BarsAre finds them.     *)
BarsBy(bars, tuple, interval, key) ==
  /\ key \in [DOMAIN bars -> Keys(tuple, interval)]
  /\ \A k \in Keys(tuple, interval) : \E i \in DOMAIN bars : key[i] = k
  /\ \A i \in DOMAIN bars :
       bars[i] = MergedBar(Group(tuple, key[i], interval), key[i], interval, bars[i].sequence)
  /\ \A i, j \in DOMAIN bars :
       Precedes(bars, i, j) <=>
         \/ bars[i].available_time < bars[j].available_time
         \/ /\ bars[i].available_time = bars[j].available_time
            /\ KeyBefore(key[i], key[j])

(* Of one key there is one bar.                                             *)
LEMMA OneBar ==
  ASSUME NEW tuple \in Seq(Event), NEW interval \in Nat \ {0}, NEW bars \in Seq(Event), NEW key,
         BarsBy(bars, tuple, interval, key), NEW i \in DOMAIN bars, NEW j \in DOMAIN bars,
         key[i] = key[j]
  PROVE  i = j
<1> DEFINE D == DOMAIN bars
           K == Keys(tuple, interval)
           before == KeysBefore(tuple, interval)
<1>1. key[i] \in K /\ Ranking(K, before)
  BY KeysAre DEF BarsBy
<1>2. ~KeyBefore(key[i], key[i])
  <2>1. key[i] \notin before[key[i]]
    BY <1>1 DEF Ranking
  <2>2. QED
    BY <1>1, <2>1 DEF KeysBefore
<1>3. bars[i].available_time = AvailableTime(Group(tuple, key[i], interval))
      /\ bars[j].available_time = AvailableTime(Group(tuple, key[j], interval))
  <2>1. \A group, k, s : MergedBar(group, k, interval, s).available_time = AvailableTime(group)
    BY DEF MergedBar
  <2>2. /\ bars[i] = MergedBar(Group(tuple, key[i], interval), key[i], interval, bars[i].sequence)
        /\ bars[j] = MergedBar(Group(tuple, key[j], interval), key[j], interval, bars[j].sequence)
    BY DEF BarsBy
  <2>3. QED
    BY <2>1, <2>2
<1>4. bars[i].available_time = bars[j].available_time /\ bars[i].available_time \in Nat
  <2>1. bars[i] \in Event
    OBVIOUS
  <2>2. QED
    BY <1>3, <2>1 DEF Event
<1>5. ~Precedes(bars, i, j) /\ ~Precedes(bars, j, i)
  BY <1>2, <1>4 DEF BarsBy
<1>6. Ranking(D, Ahead(bars, D))
  BY PositionsRanked
<1>7. QED
  BY <1>5, <1>6 DEF Ranking, Ahead

(* Resampling keeps a cut: a bar that is available is made of bars that     *)
(* were, and one that is not stands for whatever is made of the rest.       *)
LEMMA ResampleCut ==
  ASSUME NEW X \in Seq(Event), NEW Y \in Seq(Event), NEW a \in Nat, Cut(X, Y, a),
         NEW interval \in Nat \ {0}
  PROVE  Cut(Resampled(X, interval), Resampled(Y, interval), a)
<1> DEFINE S == Resampled(X, interval)
           T == Resampled(Y, interval)
<1>1. PICK h : CutBy(X, Y, a, h)
  BY DEF Cut
<1>2. S \in Seq(Event) /\ T \in Seq(Event)
  BY ResampledIs
<1>3. PICK kS : BarsBy(S, X, interval, kS)
  BY BarsAre DEF BarsBy
<1>4. PICK kT : BarsBy(T, Y, interval, kT)
  BY BarsAre DEF BarsBy
<1> HIDE DEF S, T
<1> DEFINE BarS(i) == MergedBar(Group(X, kS[i], interval), kS[i], interval, S[i].sequence)
           BarT(j) == MergedBar(Group(Y, kT[j], interval), kT[j], interval, T[j].sequence)
<1>5. /\ \A i \in DOMAIN S : kS[i] \in Keys(X, interval) /\ S[i] = BarS(i)
      /\ \A j \in DOMAIN T : kT[j] \in Keys(Y, interval) /\ T[j] = BarT(j)
      /\ \A k \in Keys(X, interval) : \E i \in DOMAIN S : kS[i] = k
      /\ \A k \in Keys(Y, interval) : \E j \in DOMAIN T : kT[j] = k
  BY <1>3, <1>4 DEF BarsBy
<1>6. \A i \in DOMAIN S : /\ S[i].available_time = AvailableTime(Group(X, kS[i], interval))
                          /\ S[i].instrument_id = kS[i][1]
                          /\ S[i].event_time = (kS[i][2] + 1) * interval
  BY <1>5 DEF MergedBar
<1>7. \A j \in DOMAIN T : /\ T[j].instrument_id = kT[j][1]
                          /\ T[j].event_time = (kT[j][2] + 1) * interval
  BY <1>5 DEF MergedBar
<1>8. ASSUME NEW i \in Kept(S, a)
      PROVE  /\ i \in DOMAIN S /\ kS[i] \in Keys(Y, interval)
             /\ \A j \in DOMAIN T : kT[j] = kS[i] => Alike(S[i], T[j])
  <2>1. i \in DOMAIN S /\ kS[i] \in Keys(X, interval) /\ S[i].available_time <= a
    BY <1>5 DEF Kept
  <2>2. \A n \in DOMAIN X : Key(X[n], interval) = kS[i] => X[n].available_time <= a
    BY <1>6, <2>1, BarAvailable
  <2>3. /\ kS[i] \in Keys(Y, interval)
        /\ \A s, t : Alike(MergedBar(Group(X, kS[i], interval), kS[i], interval, s),
                           MergedBar(Group(Y, kS[i], interval), kS[i], interval, t))
    BY <1>1, <2>1, <2>2, GroupsAlike
  <2>4. ASSUME NEW j \in DOMAIN T, kT[j] = kS[i] PROVE Alike(S[i], T[j])
    <3>1. S[i] = MergedBar(Group(X, kS[i], interval), kS[i], interval, S[i].sequence)
      BY <1>5, <2>1
    <3>2. T[j] = MergedBar(Group(Y, kS[i], interval), kS[i], interval, T[j].sequence)
      BY <1>5, <2>4
    <3>3. QED
      BY <2>3, <3>1, <3>2
  <2>5. QED
    BY <2>1, <2>3, <2>4
<1> HIDE DEF BarS, BarT
<1> DEFINE g == [i \in Kept(S, a) |-> CHOOSE j \in DOMAIN T : kT[j] = kS[i]]
<1>9. ASSUME NEW i \in Kept(S, a)
      PROVE  /\ g[i] \in DOMAIN T /\ kT[g[i]] = kS[i]
             /\ Alike(S[i], T[g[i]])
  <2>1. \E j \in DOMAIN T : kT[j] = kS[i]
    BY <1>5, <1>8
  <2>2. g[i] \in DOMAIN T /\ kT[g[i]] = kS[i]
    BY <2>1
  <2> HIDE DEF g
  <2>3. QED
    BY <1>8, <2>2
<1>10. g \in [Kept(S, a) -> DOMAIN T]
  BY <1>9
<1> HIDE DEF g
<1>11. ASSUME NEW m \in Kept(S, a), NEW n \in Kept(S, a)
       PROVE  Precedes(S, m, n) <=> Precedes(T, g[m], g[n])
  <2>1. /\ S[m].available_time = T[g[m]].available_time
        /\ S[n].available_time = T[g[n]].available_time
        /\ kT[g[m]] = kS[m] /\ kT[g[n]] = kS[n] /\ m \in DOMAIN S /\ n \in DOMAIN S
        /\ g[m] \in DOMAIN T /\ g[n] \in DOMAIN T
    BY <1>8, <1>9 DEF Alike
  <2>2. Precedes(S, m, n) <=>
          \/ S[m].available_time < S[n].available_time
          \/ S[m].available_time = S[n].available_time /\ KeyBefore(kS[m], kS[n])
    BY <1>3, <2>1 DEF BarsBy
  <2>3. Precedes(T, g[m], g[n]) <=>
          \/ T[g[m]].available_time < T[g[n]].available_time
          \/ /\ T[g[m]].available_time = T[g[n]].available_time
             /\ KeyBefore(kT[g[m]], kT[g[n]])
    BY <1>4, <2>1 DEF BarsBy
  <2>4. QED
    BY <2>1, <2>2, <2>3
<1>12. ASSUME NEW l \in DOMAIN T
       PROVE  \/ \E n \in Kept(S, a) : g[n] = l
              \/ \E n \in DOMAIN S \ Kept(S, a) : /\ S[n].instrument_id = T[l].instrument_id
                                                  /\ S[n].event_time = T[l].event_time
  <2>1. PICK m \in DOMAIN Y : kT[l] = Key(Y[m], interval)
    BY <1>5 DEF Keys
  <2>2. PICK n \in DOMAIN X : /\ X[n].instrument_id = Y[m].instrument_id
                              /\ X[n].event_time = Y[m].event_time
    BY <1>1 DEF CutBy, Alike, Kept
  <2>3. Key(X[n], interval) = kT[l]
    BY <2>1, <2>2 DEF Key, Bucket
  <2>4. kT[l] \in Keys(X, interval)
    BY <2>3 DEF Keys
  <2>5. PICK i \in DOMAIN S : kS[i] = kT[l]
    BY <1>5, <2>4
  <2>6. CASE i \in Kept(S, a)
    <3>1. g[i] \in DOMAIN T /\ kT[g[i]] = kT[l]
      BY <1>9, <2>5, <2>6
    <3>2. g[i] = l
      BY <1>2, <1>4, <3>1, OneBar
    <3>3. QED
      BY <2>6, <3>2
  <2>7. CASE i \notin Kept(S, a)
    <3>1. S[i].instrument_id = T[l].instrument_id /\ S[i].event_time = T[l].event_time
      BY <1>6, <1>7, <2>5
    <3>2. QED
      BY <2>7, <3>1
  <2>8. QED
    BY <2>6, <2>7
<1>13. CutBy(S, T, a, g)
  BY <1>9, <1>10, <1>11, <1>12 DEF CutBy
<1>14. QED
  BY <1>13 DEF Cut, S, T

(* Every record of a plan keeps a cut.                                      *)
LEMMA AppliedCut ==
  ASSUME request \in Requests, NEW r \in PlanRecords, NEW X \in Seq(Event), NEW Y \in Seq(Event),
         NEW a \in Nat, Cut(X, Y, a)
  PROVE  Cut(Applied(r, X), Applied(r, Y), a)
<1>1. CASE r.result = "EXACT" /\ r.transformation_id = "none"
  BY <1>1 DEF Applied
<1>2. CASE /\ r.result = "TRANSFORMED_LOSSLESS" /\ r.transformation_id = "symbol.map.v1"
           /\ \A i \in DOMAIN r.mapping : r.mapping[i] \in DOMAIN InstrumentRank
  <2>1. \A t : Applied(r, t) = MapSymbols(t, r.mapping)
    BY <1>2 DEF Applied
  <2>2. QED
    BY <1>2, <2>1, MapCut
<1>3. CASE /\ r.result = "TRANSFORMED_LOSSY" /\ r.transformation_id = "bar.resample.v1"
           /\ r.target_interval \in Nat \ {0}
  <2>1. \A t : Applied(r, t) = Resampled(t, r.target_interval)
    BY <1>3 DEF Applied
  <2>2. QED
    BY <1>3, <2>1, ResampleCut
<1>4. QED
  BY <1>1, <1>2, <1>3, RecordsAre

(* The events known at a time are collected one after another.              *)
LEMMA KnownSteps ==
  ASSUME tape \in Seq(Event), NEW a \in Nat
  PROVE  \E g \in [0 .. Len(tape) -> Seq(Event)] :
           /\ g[0] = <<>> /\ KnownAt(a) = g[Len(tape)]
           /\ \A k \in 1 .. Len(tape) :
                g[k] = IF tape[k].available_time <= a THEN Append(g[k - 1], tape[k])
                       ELSE g[k - 1]
<1> DEFINE N == Len(tape)
           D == DOMAIN tape
           V == Seq(Event)
           Grown(known, e) == IF e.available_time <= a THEN Append(known, e) ELSE known
           step == [p \in V \X Event |-> Grown(p[1], p[2])]
           Steps(f) == f = [s \in SUBSET D |-> IF s = {} THEN <<>>
                              ELSE IF tape[Max(s)].available_time <= a
                                   THEN Append(f[s \ {Max(s)}], tape[Max(s)])
                                   ELSE f[s \ {Max(s)}]]
           iter == CHOOSE f : Steps(f)
<1>1. N \in Nat /\ D = 1 .. N /\ tape \in [1 .. N -> Event]
  OBVIOUS
<1>2. /\ \A known \in V, e \in Event : Grown(known, e) \in V
      /\ <<>> \in V
  OBVIOUS
<1>3. /\ step \in [V \X Event -> V]
      /\ \A known \in V, e \in Event : step[<<known, e>>] = Grown(known, e)
  <2> HIDE DEF Grown, V
  <2>1. QED
    BY <1>2
<1> HIDE DEF step, V
<1>4. \E f : Steps(f)
  <2>1. PICK g \in [SUBSET (1 .. N) -> V] : Iterates(g, N, step, <<>>, tape)
    <3>1. Typed(step, <<>>, N, tape, V, Event)
      BY <1>1, <1>2, <1>3 DEF Typed
    <3>2. QED
      BY <3>1, IteratesAll
  <2>2. ASSUME NEW s \in SUBSET D, s # {}
        PROVE  g[s] = Grown(g[s \ {Max(s)}], tape[Max(s)])
    <3>1. Max(s) \in D /\ s \ {Max(s)} \in SUBSET D
      BY <1>1, <2>2, GreatestNumber
    <3>2. g[s \ {Max(s)}] \in V /\ tape[Max(s)] \in Event
      BY <1>1, <2>1, <3>1
    <3> HIDE DEF Grown
    <3>3. QED
      BY <1>1, <1>3, <2>1, <2>2, <3>2 DEF Iterates
  <2>3. g[{}] = <<>>
    BY <1>1, <2>1 DEF Iterates
  <2>4. Steps(g)
    BY <1>1, <2>1, <2>2, <2>3
  <2>5. QED
    BY <2>4
<1>5. Steps(iter)
  BY <1>4
<1>6. KnownAt(a) = iter[D]
  BY DEF KnownAt, FoldLeft, MapThenFoldSet
<1> HIDE DEF iter
<1>7. iter[{}] = <<>>
  BY <1>5
<1>8. ASSUME NEW s \in SUBSET (1 .. N), s # {}, iter[s \ {Max(s)}] \in V
      PROVE  iter[s] = step[<<iter[s \ {Max(s)}], tape[Max(s)]>>]
  <2>1. Max(s) \in D
    BY <1>1, <1>8, GreatestNumber
  <2>2. tape[Max(s)] \in Event
    BY <1>1, <2>1
  <2>3. iter[s] = Grown(iter[s \ {Max(s)}], tape[Max(s)])
    BY <1>1, <1>5, <1>8
  <2> HIDE DEF Grown
  <2>4. QED
    BY <1>3, <1>8, <2>2, <2>3
<1>9. PICK g \in [0 .. N -> V] :
        /\ g[0] = <<>> /\ g[N] = iter[1 .. N]
        /\ \A k \in 1 .. N : g[k] = step[<<g[k - 1], tape[k]>>]
  <2>1. Typed(step, <<>>, N, tape, V, Event)
    BY <1>1, <1>2, <1>3 DEF Typed
  <2>2. Unfolds(iter, step, <<>>, N, tape, V)
    BY <1>7, <1>8 DEF Unfolds
  <2>3. Passes(iter[1 .. N], step, <<>>, N, tape, V)
    BY <2>1, <2>2, Iterated
  <2>4. QED
    BY <2>3 DEF Passes
<1>10. ASSUME NEW k \in 1 .. N PROVE g[k] = Grown(g[k - 1], tape[k])
  <2>1. k - 1 \in 0 .. N /\ tape[k] \in Event
    BY <1>1
  <2>2. g[k] = step[<<g[k - 1], tape[k]>>]
    BY <1>9
  <2> HIDE DEF Grown
  <2>3. QED
    BY <1>3, <1>9, <2>1, <2>2
<1>11. g \in [0 .. Len(tape) -> Seq(Event)]
  BY <1>9 DEF V
<1>12. QED
  BY <1>1, <1>6, <1>9, <1>10, <1>11

(* What the plan makes of a tape, record by record.                         *)
Runs(g, tuple) ==
  /\ g \in [0 .. Len(records) -> Seq(Event)]
  /\ g[0] = tuple /\ AppliedAll(records, tuple) = g[Len(records)]
  /\ \A k \in 1 .. Len(records) : g[k] = Applied(records[k], g[k - 1])

LEMMA AppliedSteps ==
  ASSUME request \in Requests, records \in Seq(PlanRecords), NEW tuple \in Seq(Event)
  PROVE  \E g : Runs(g, tuple)
<1> DEFINE N == Len(records)
           D == DOMAIN records
           V == Seq(Event)
           step == [p \in V \X PlanRecords |-> Applied(p[2], p[1])]
           Steps(f) == f = [s \in SUBSET D |-> IF s = {} THEN tuple
                              ELSE Applied(records[Max(s)], f[s \ {Max(s)}])]
           iter == CHOOSE f : Steps(f)
<1>1. N \in Nat /\ D = 1 .. N /\ records \in [1 .. N -> PlanRecords] /\ tuple \in V
  OBVIOUS
<1>2. \A t \in V, r \in PlanRecords : Applied(r, t) \in V
  BY AppliedIs
<1>3. /\ step \in [V \X PlanRecords -> V]
      /\ \A t \in V, r \in PlanRecords : step[<<t, r>>] = Applied(r, t)
  <2> HIDE DEF V
  <2>1. QED
    BY <1>2
<1> HIDE DEF step, V
<1>4. \E f : Steps(f)
  <2>1. PICK g \in [SUBSET (1 .. N) -> V] : Iterates(g, N, step, tuple, records)
    <3>1. Typed(step, tuple, N, records, V, PlanRecords)
      BY <1>1, <1>3 DEF Typed
    <3>2. QED
      BY <3>1, IteratesAll
  <2>2. ASSUME NEW s \in SUBSET D, s # {}
        PROVE  g[s] = Applied(records[Max(s)], g[s \ {Max(s)}])
    <3>1. Max(s) \in D /\ s \ {Max(s)} \in SUBSET D
      BY <1>1, <2>2, GreatestNumber
    <3>2. g[s \ {Max(s)}] \in V /\ records[Max(s)] \in PlanRecords
      BY <1>1, <2>1, <3>1
    <3>3. QED
      BY <1>1, <1>3, <2>1, <2>2, <3>2 DEF Iterates
  <2>3. g[{}] = tuple
    BY <1>1, <2>1 DEF Iterates
  <2>4. Steps(g)
    BY <1>1, <2>1, <2>2, <2>3
  <2>5. QED
    BY <2>4
<1>5. Steps(iter)
  BY <1>4
<1>6. AppliedAll(records, tuple) = iter[D]
  BY DEF AppliedAll, FoldLeft, MapThenFoldSet
<1> HIDE DEF iter
<1>7. iter[{}] = tuple
  BY <1>5
<1>8. ASSUME NEW s \in SUBSET (1 .. N), s # {}, iter[s \ {Max(s)}] \in V
      PROVE  iter[s] = step[<<iter[s \ {Max(s)}], records[Max(s)]>>]
  <2>1. Max(s) \in D
    BY <1>1, <1>8, GreatestNumber
  <2>2. records[Max(s)] \in PlanRecords
    BY <1>1, <2>1
  <2>3. iter[s] = Applied(records[Max(s)], iter[s \ {Max(s)}])
    BY <1>1, <1>5, <1>8
  <2>4. QED
    BY <1>3, <1>8, <2>2, <2>3
<1>9. PICK g \in [0 .. N -> V] :
        /\ g[0] = tuple /\ g[N] = iter[1 .. N]
        /\ \A k \in 1 .. N : g[k] = step[<<g[k - 1], records[k]>>]
  <2>1. Typed(step, tuple, N, records, V, PlanRecords)
    BY <1>1, <1>3 DEF Typed
  <2>2. Unfolds(iter, step, tuple, N, records, V)
    BY <1>7, <1>8 DEF Unfolds
  <2>3. Passes(iter[1 .. N], step, tuple, N, records, V)
    BY <2>1, <2>2, Iterated
  <2>4. QED
    BY <2>3 DEF Passes
<1>10. ASSUME NEW k \in 1 .. N PROVE g[k] = Applied(records[k], g[k - 1])
  <2>1. k - 1 \in 0 .. N /\ records[k] \in PlanRecords
    BY <1>1
  <2>2. g[k] = step[<<g[k - 1], records[k]>>]
    BY <1>9
  <2>3. QED
    BY <1>3, <1>9, <2>1, <2>2
<1>11. g \in [0 .. Len(records) -> Seq(Event)]
  BY <1>9 DEF V
<1>12. QED
  BY <1>1, <1>6, <1>9, <1>10, <1>11 DEF Runs

(* The events known at a time are those of the tape, and in its order.      *)
LEMMA KnownCut ==
  ASSUME tape \in Seq(Event), NEW a \in Nat
  PROVE  KnownAt(a) \in Seq(Event) /\ Cut(tape, KnownAt(a), a)
<1> DEFINE N == Len(tape)
           K(k) == {n \in 1 .. k : tape[n].available_time <= a}
<1>1. N \in Nat /\ DOMAIN tape = 1 .. N /\ \A n \in 1 .. N : tape[n] \in Event
  OBVIOUS
<1>2. PICK g \in [0 .. N -> Seq(Event)] :
        /\ g[0] = <<>> /\ KnownAt(a) = g[N]
        /\ \A k \in 1 .. N :
             g[k] = IF tape[k].available_time <= a THEN Append(g[k - 1], tape[k]) ELSE g[k - 1]
  BY KnownSteps
<1> DEFINE Collected(k, h) ==
             /\ h \in [K(k) -> 1 .. Len(g[k])]
             /\ \A n \in K(k) : g[k][h[n]] = tape[n]
             /\ \A m, n \in K(k) : m < n => h[m] < h[n]
             /\ \A l \in 1 .. Len(g[k]) : \E n \in K(k) : h[n] = l
           S == {k \in Nat : k <= N => \E h : Collected(k, h)}
<1>3. 0 \in S
  <2>1. K(0) = {} /\ Len(g[0]) = 0
    BY <1>2
  <2>2. Collected(0, [n \in {} |-> 0])
    BY <2>1
  <2>3. QED
    BY <2>2
<1>4. ASSUME NEW k \in Nat, k \in S, k + 1 <= N PROVE \E h : Collected(k + 1, h)
  <2>2. k + 1 \in 1 .. N /\ (k + 1) - 1 = k /\ k \in 0 .. N /\ k <= N
    BY <1>1, <1>4
  <2>3. PICK h : Collected(k, h)
    BY <1>4, <2>2
  <2>4. g[k] \in Seq(Event) /\ Len(g[k]) \in Nat /\ tape[k + 1] \in Event
    BY <1>1, <1>2, <2>2
  <2>5. \A n \in K(k) : n \in 1 .. k /\ n < k + 1 /\ n # k + 1
    OBVIOUS
  <2>6. CASE tape[k + 1].available_time <= a
    <3> DEFINE L == Len(g[k])
               f == [n \in K(k + 1) |-> IF n = k + 1 THEN L + 1 ELSE h[n]]
    <3>1. g[k + 1] = Append(g[k], tape[k + 1])
      BY <1>2, <2>2, <2>6
    <3>2. /\ Len(g[k + 1]) = L + 1 /\ g[k + 1][L + 1] = tape[k + 1]
          /\ \A l \in 1 .. L : g[k + 1][l] = g[k][l]
      BY <2>4, <3>1
    <3>3. K(k + 1) = K(k) \cup {k + 1}
      BY <2>6
    <3> HIDE DEF L, K
    <3>4. L \in Nat
      BY <2>4 DEF L
    <3>5. /\ f[k + 1] = L + 1
          /\ \A n \in K(k) : f[n] = h[n] /\ h[n] \in 1 .. L /\ h[n] < L + 1
      BY <2>3, <2>5, <3>3, <3>4 DEF L
    <3>6. f \in [K(k + 1) -> 1 .. L + 1]
      <4>1. \A n \in K(k) : h[n] \in 1 .. L + 1
        <5>1. \A l \in 1 .. L : l \in 1 .. L + 1
          BY <3>4
        <5>2. QED
          BY <3>5, <5>1
      <4>2. L + 1 \in 1 .. L + 1
        BY <3>4
      <4>3. \A n \in K(k + 1) : f[n] \in 1 .. L + 1
        BY <3>3, <4>1, <4>2
      <4>4. QED
        BY <4>3
    <3> HIDE DEF f
    <3>7. \A n \in K(k + 1) : g[k + 1][f[n]] = tape[n]
      BY <2>3, <3>2, <3>3, <3>5
    <3>8. \A m, n \in K(k + 1) : m < n => f[m] < f[n]
      <4>1. \A n \in K(k) : ~(k + 1 < n)
        BY <2>5
      <4>2. ~(k + 1 < k + 1)
        OBVIOUS
      <4>3. QED
        BY <2>3, <3>3, <3>5, <4>1, <4>2
    <3>9. ASSUME NEW l \in 1 .. L + 1 PROVE \E n \in K(k + 1) : f[n] = l
      <4>1. l = L + 1 \/ l \in 1 .. L
        BY <3>4
      <4>2. QED
        BY <2>3, <3>3, <3>5, <4>1 DEF L
    <3>10. Collected(k + 1, f)
      BY <3>2, <3>6, <3>7, <3>8, <3>9
    <3>11. QED
      BY <3>10
  <2>7. CASE ~(tape[k + 1].available_time <= a)
    <3>1. g[k + 1] = g[k]
      BY <1>2, <2>2, <2>7
    <3>2. K(k + 1) = K(k)
      BY <2>7
    <3> HIDE DEF K
    <3>3. Collected(k + 1, h)
      BY <2>3, <3>1, <3>2
    <3>4. QED
      BY <3>3
  <2>8. QED
    BY <2>6, <2>7
<1>5. N \in S
  <2> HIDE DEF Collected
  <2>1. \A k \in Nat : k \in S => k + 1 \in S
    BY <1>4
  <2> HIDE DEF S
  <2>2. QED
    BY <1>1, <1>3, <2>1, Inductive
<1> HIDE DEF S
<1>6. PICK h : Collected(N, h)
  <2>1. N <= N
    BY <1>1
  <2> HIDE DEF N, Collected
  <2>2. QED
    BY <1>5, <2>1 DEF S
<1>7. KnownAt(a) = g[N] /\ g[N] \in Seq(Event) /\ DOMAIN g[N] = 1 .. Len(g[N])
  BY <1>1, <1>2
<1>8. Kept(tape, a) = K(N)
  BY <1>1 DEF Kept
<1>9. \A n \in K(N) : n \in 1 .. N /\ h[n] \in 1 .. Len(g[N]) /\ g[N][h[n]] = tape[n]
  BY <1>6
<1>10. \A m, n \in K(N) : m < n => h[m] < h[n]
  BY <1>6
<1>11. \A l \in 1 .. Len(g[N]) : \E n \in K(N) : h[n] = l
  BY <1>6
<1>12. h \in [K(N) -> 1 .. Len(g[N])]
  BY <1>6
<1> HIDE DEF K, Collected
<1>13. ASSUME NEW m \in K(N), NEW n \in K(N)
       PROVE  Precedes(tape, m, n) <=> Precedes(g[N], h[m], h[n])
  <2>1. m \in Int /\ n \in Int /\ h[m] \in Int /\ h[n] \in Int
    BY <1>9
  <2>2. (m < n => h[m] < h[n]) /\ (n < m => h[n] < h[m]) /\ (m = n => h[m] = h[n])
    BY <1>10
  <2>3. m < n <=> h[m] < h[n]
    BY <2>1, <2>2
  <2>4. tape[m] = g[N][h[m]] /\ tape[n] = g[N][h[n]]
    BY <1>9
  <2>5. QED
    BY <2>3, <2>4 DEF Precedes
<1>14. \A n \in K(N) : Alike(tape[n], g[N][h[n]])
  BY <1>9 DEF Alike
<1>15. CutBy(tape, KnownAt(a), a, h)
  BY <1>7, <1>8, <1>11, <1>12, <1>13, <1>14 DEF CutBy
<1>16. QED
  BY <1>7, <1>15 DEF Cut

(* The invariant: what the events known at a time have been converted to by *)
(* the records applied so far is a cut of what all events have been         *)
(* converted to.                                                            *)
CausalInv ==
  /\ stage \in {"declaration", "requirement"} => events = tape
  /\ stage = "delivered" => next = Len(records) + 1
  /\ stage \in {"planned", "delivered"} =>
       \A a \in Nat : \E g : Runs(g, KnownAt(a)) /\ Cut(events, g[next - 1], a)

LEMMA CausalStep == CompileInv /\ PlanInv /\ CausalInv /\ [Next]_vars => CausalInv'
<1> SUFFICES ASSUME CompileInv, PlanInv, CausalInv, [Next]_vars PROVE CausalInv'
  OBVIOUS
<1>1. /\ request \in Requests /\ records \in Seq(PlanRecords) /\ events \in Seq(Event)
      /\ Len(records) \in Nat /\ DOMAIN records = 1 .. Len(records)
      /\ next \in Nat \ {0}
  BY DEF CompileInv, PlanInv
<1>2. request' = request
  BY DEF Next, RefuseDeclaration, AcceptDeclaration, RefuseRequirement, AcceptRequirement,
         RefuseSandbox, Refuse, Plan, Apply, ApplyFails, Deliver, Ended, vars
<1>3. tape' = tape /\ tape \in Seq(Event)
  BY <1>1, <1>2, RequestsAssumption DEF tape
<1>4. \A a \in Nat : KnownAt(a)' = KnownAt(a)
  BY <1>3 DEF KnownAt, FoldLeft, MapThenFoldSet
<1>5. CASE RefuseDeclaration \/ RefuseRequirement \/ RefuseSandbox \/ ApplyFails
  <2>1. stage' \in {"refused", "failed"}
    BY <1>5 DEF RefuseDeclaration, RefuseRequirement, RefuseSandbox, ApplyFails, Refuse
  <2>2. stage' \notin {"declaration", "requirement", "planned", "delivered"}
    BY <2>1
  <2>3. QED
    BY <2>2 DEF CausalInv
<1>6. CASE AcceptDeclaration \/ AcceptRequirement
  <2>1. stage \in {"declaration", "requirement"} /\ stage' = "requirement" /\ events' = events
    BY <1>6 DEF AcceptDeclaration, AcceptRequirement
  <2>2. events' = tape'
    BY <1>3, <2>1 DEF CausalInv
  <2>3. QED
    BY <2>1, <2>2 DEF CausalInv
<1>7. CASE Plan
  <2>1. /\ stage = "requirement" /\ stage' = "planned" /\ next' = 1
        /\ records' = records /\ events' = events /\ events = tape
    BY <1>7 DEF Plan, CausalInv
  <2>2. ASSUME NEW a \in Nat
        PROVE  \E g : Runs(g, KnownAt(a))' /\ Cut(events', g[next' - 1], a)
    <3>1. KnownAt(a) \in Seq(Event) /\ Cut(tape, KnownAt(a), a)
      BY <1>3, KnownCut
    <3>2. PICK g : Runs(g, KnownAt(a))
      BY <1>1, <3>1, AppliedSteps
    <3>3. g[0] = KnownAt(a) /\ next' - 1 = 0
      BY <2>1, <3>2 DEF Runs
    <3>4. Cut(events', g[next' - 1], a)
      BY <2>1, <3>1, <3>3
    <3>5. Runs(g, KnownAt(a))'
      BY <1>4, <2>1, <3>2 DEF Runs
    <3>6. QED
      BY <3>4, <3>5
  <2>3. QED
    BY <2>1, <2>2 DEF CausalInv
<1>8. CASE Apply
  <2>1. /\ stage = "planned" /\ stage' = stage /\ next \in 1 .. Len(records)
        /\ records' = records /\ events' = Applied(records[next], events) /\ next' = next + 1
    BY <1>1, <1>8 DEF Apply
  <2>2. /\ records[next] \in PlanRecords /\ next - 1 \in 0 .. Len(records) /\ next' - 1 = next
    BY <1>1, <2>1
  <2>3. ASSUME NEW a \in Nat
        PROVE  \E g : Runs(g, KnownAt(a))' /\ Cut(events', g[next' - 1], a)
    <3>1. PICK g : Runs(g, KnownAt(a)) /\ Cut(events, g[next - 1], a)
      BY <2>1 DEF CausalInv
    <3>2. g[next - 1] \in Seq(Event) /\ g[next] = Applied(records[next], g[next - 1])
      BY <2>1, <2>2, <3>1 DEF Runs
    <3>3. Cut(Applied(records[next], events), g[next], a)
      BY <1>1, <2>2, <3>1, <3>2, AppliedCut
    <3>4. Runs(g, KnownAt(a))'
      BY <1>4, <2>1, <3>1 DEF Runs
    <3>5. QED
      BY <2>1, <2>2, <3>3, <3>4
  <2>4. QED
    BY <2>1, <2>3 DEF CausalInv
<1>9. CASE Deliver \/ UNCHANGED vars
  <2>1. /\ events' = events /\ records' = records /\ next' = next
        /\ \/ stage' = stage
           \/ stage = "planned" /\ stage' = "delivered" /\ next = Len(records) + 1
    <3>1. CASE Deliver
      <4>1. /\ stage = "planned" /\ stage' = "delivered" /\ next \notin 1 .. Len(records)
            /\ events' = events /\ records' = records /\ next' = next
        BY <1>1, <3>1 DEF Deliver
      <4>2. next <= Len(records) + 1
        BY <4>1 DEF PlanInv
      <4>3. next = Len(records) + 1
        BY <1>1, <4>1, <4>2
      <4>4. QED
        BY <4>1, <4>3
    <3>2. CASE UNCHANGED vars
      BY <3>2 DEF vars
    <3>3. QED
      BY <1>9, <3>1, <3>2
  <2>2. ASSUME NEW a \in Nat, stage' \in {"planned", "delivered"}
        PROVE  \E g : Runs(g, KnownAt(a))' /\ Cut(events', g[next' - 1], a)
    <3>1. PICK g : Runs(g, KnownAt(a)) /\ Cut(events, g[next - 1], a)
      BY <2>1, <2>2 DEF CausalInv
    <3>2. Runs(g, KnownAt(a))'
      BY <1>4, <2>1, <3>1 DEF Runs
    <3>3. QED
      BY <2>1, <3>1, <3>2
  <2>3. stage' = "delivered" => next' = Len(records') + 1
    BY <2>1 DEF CausalInv
  <2>4. stage' \in {"declaration", "requirement"} => events' = tape'
    BY <1>3, <2>1 DEF CausalInv
  <2>5. QED
    BY <2>2, <2>3, <2>4 DEF CausalInv
<1>10. QED
  BY <1>5, <1>6, <1>7, <1>8, <1>9 DEF Next, Ended

(* No conversion sees the future: for every plan that compile_run makes and *)
(* every tape, an event delivered as available at a time is what the same   *)
(* plan makes of the events that were available at that time, whatever      *)
(* comes later, however the tape is ordered and however often it is         *)
(* resampled (resample_bars, compatibility.py:58-95).                       *)
THEOREM ConversionsAreCausal == Spec => []Causal
<1>1. CompileInv /\ PlanInv /\ CausalInv => Causal
  <2> SUFFICES ASSUME CompileInv, PlanInv, CausalInv, stage = "delivered",
                      NEW n \in DOMAIN events
               PROVE  View(events[n].instrument_id, events[n].event_time,
                           events[n].available_time, events[n].payload)
                        \in Unnumbered(AppliedAll(records, KnownAt(events[n].available_time)))
    BY DEF Causal
  <2> DEFINE a == events[n].available_time
             e == events[n]
  <2>1. e \in Event
    BY DEF PlanInv
  <2>2. a \in Nat /\ a <= a
    BY <2>1 DEF Event
  <2>3. PICK g : Runs(g, KnownAt(a)) /\ Cut(events, g[next - 1], a)
    BY <2>2 DEF CausalInv
  <2>4. next - 1 = Len(records) /\ Len(records) \in Nat
    <3>1. next = Len(records) + 1 /\ Len(records) \in Nat
      BY DEF CausalInv, PlanInv
    <3>2. QED
      BY <3>1
  <2>5. AppliedAll(records, KnownAt(a)) = g[next - 1]
    BY <2>3, <2>4 DEF Runs
  <2> DEFINE Y == g[next - 1]
  <2>6. PICK h : CutBy(events, Y, a, h)
    BY <2>3 DEF Cut
  <2>7. n \in Kept(events, a)
    BY <2>2 DEF Kept
  <2>8. h[n] \in DOMAIN Y /\ Alike(e, Y[h[n]])
    BY <2>6, <2>7 DEF CutBy
  <2> HIDE DEF Y, e, a
  <2>9. PICK f \in ToSet(Y) : Alike(e, f)
    BY <2>8 DEF ToSet
  <2>10. View(e.instrument_id, e.event_time, e.available_time, e.payload) \in Unnumbered(Y)
    BY <2>9 DEF Alike, Unnumbered, View
  <2>11. QED
    BY <2>5, <2>10 DEF Y, e, a
<1>2. Init => CausalInv
  BY DEF Init, CausalInv, tape
<1>3. CausalInv /\ CompileInv /\ PlanInv /\ [Next]_vars => CausalInv'
  BY CausalStep
<1>4. QED
  BY <1>1, <1>2, <1>3, PlanInvariant, PTL DEF Spec

-----------------------------------------------------------------------------
(* Division with remainder is unique.                                       *)
LEMMA Divided ==
  ASSUME NEW a \in Int, NEW d \in Nat \ {0}, NEW q \in Int, NEW r \in 0 .. d - 1,
         a = d * q + r
  PROVE  a \div d = q /\ a % d = r
<1> DEFINE p == a \div d
           s == a % d
<1>1. p \in Int /\ s \in 0 .. d - 1 /\ a = d * p + s
  OBVIOUS
<1> HIDE DEF p, s
<1>2. d * p \in Int /\ d * q \in Int
  BY <1>1
<1>3. ASSUME p < q PROVE FALSE
  <2> DEFINE m == q - p - 1
  <2>1. m \in Nat /\ q = p + m + 1
    BY <1>1, <1>3
  <2> HIDE DEF m
  <2>2. d * q = d * p + d * m + d /\ d * m \in Nat
    BY <1>1, <2>1
  <2>3. QED
    BY <1>1, <1>2, <2>2
<1>4. ASSUME q < p PROVE FALSE
  <2> DEFINE m == p - q - 1
  <2>1. m \in Nat /\ p = q + m + 1
    BY <1>1, <1>4
  <2> HIDE DEF m
  <2>2. d * p = d * q + d * m + d /\ d * m \in Nat
    BY <1>1, <2>1
  <2>3. QED
    BY <1>1, <1>2, <2>2
<1>5. p = q
  BY <1>1, <1>3, <1>4
<1>6. s = r
  BY <1>1, <1>2, <1>5
<1>7. QED
  BY <1>5, <1>6 DEF p, s

(* The end of the interval that a time falls in: it falls in that interval  *)
(* itself, is the time rounded up, and is on every grid that the interval   *)
(* is.                                                                      *)
EndOf(time, interval) == ((time - 1) \div interval + 1) * interval

LEMMA EndIs ==
  ASSUME NEW time \in Nat, NEW interval \in Nat \ {0}
  PROVE  /\ EndOf(time, interval) \in Nat
         /\ (EndOf(time, interval) - 1) \div interval = (time - 1) \div interval
         /\ time = 0 => EndOf(time, interval) = 0
         /\ EndOf(time, interval) = interval * ((time + interval - 1) \div interval)
         /\ \A grid \in Nat \ {0} : interval % grid = 0 => EndOf(time, interval) % grid = 0
<1> DEFINE q == (time - 1) \div interval
           r == (time - 1) % interval
           end == EndOf(time, interval)
<1>1. q \in Int /\ r \in 0 .. interval - 1 /\ time - 1 = interval * q + r
  OBVIOUS
<1>2. end \in Nat
  BY BucketIs DEF EndOf
<1>3. end = (q + 1) * interval
  BY DEF EndOf
<1> HIDE DEF q, r, end
<1>4. interval * q \in Int /\ end = interval * q + interval /\ interval * (q + 1) = end
  BY <1>1, <1>3
<1>5. (end - 1) \div interval = q
  <2>1. end - 1 = interval * q + (interval - 1) /\ end - 1 \in Int
    BY <1>1, <1>4
  <2>2. interval - 1 \in 0 .. interval - 1
    OBVIOUS
  <2>3. QED
    BY <1>1, <2>1, <2>2, Divided
<1>6. (time + interval - 1) \div interval = q + 1
  <2>1. time + interval - 1 = interval * (q + 1) + r /\ time + interval - 1 \in Int
    BY <1>1, <1>4
  <2>2. QED
    BY <1>1, <2>1, Divided
<1>7. time = 0 => end = 0
  <2> SUFFICES ASSUME time = 0 PROVE end = 0
    OBVIOUS
  <2>1. (-1) \div interval = -1
    <3>1. -1 = interval * (-1) + (interval - 1) /\ interval - 1 \in 0 .. interval - 1 /\ -1 \in Int
      OBVIOUS
    <3>2. QED
      BY <3>1, Divided
  <2>2. time - 1 = -1
    OBVIOUS
  <2>3. q = -1
    BY <2>1, <2>2 DEF q
  <2>4. QED
    BY <1>3, <2>3
<1>8. end = interval * ((time + interval - 1) \div interval)
  BY <1>4, <1>6
<1>9. ASSUME NEW grid \in Nat \ {0}, interval % grid = 0 PROVE end % grid = 0
  <2> DEFINE k == interval \div grid
  <2>1. k \in Int /\ interval = grid * k
    BY <1>9
  <2> HIDE DEF k
  <2>2. (q + 1) * (grid * k) = grid * ((q + 1) * k)
    BY <1>1, <2>1
  <2>3. (q + 1) * k \in Int
    BY <1>1, <2>1
  <2>4. end = grid * ((q + 1) * k) + 0 /\ end \in Int /\ 0 \in 0 .. grid - 1
    BY <1>2, <1>3, <2>1, <2>2
  <2>5. QED
    BY <2>3, <2>4, Divided
<1>10. QED
  BY <1>2, <1>5, <1>7, <1>8, <1>9 DEF q, end

(* Bars of which no interval lacks its last.                                *)
Complete(tuple, interval) ==
  \A n \in DOMAIN tuple :
    /\ tuple[n].payload.kind = "bar" /\ tuple[n].event_time <= tuple[n].available_time
    /\ \E m \in DOMAIN tuple :
         /\ tuple[m].instrument_id = tuple[n].instrument_id
         /\ tuple[m].event_time = EndOf(tuple[n].event_time, interval)

(* Events with room for so many more prefixes before their sources, and for *)
(* the identifiers of the bars that come of them.                           *)
Fitting(tuple, interval, left) ==
  \A n \in DOMAIN tuple :
    /\ tuple[n].source_length + 23 * left <= Room
    /\ \A i \in {tuple[n].instrument_id} \cup Range(policy.mapping) :
         EventIdLength(<<i, Bucket(tuple[n], interval)>>) <= Room

(* The first bar of an interval is one of the tape's.                       *)
LEMMA GroupStarts ==
  ASSUME NEW tuple \in Seq(Event), NEW interval \in Nat \ {0}, NEW key \in Keys(tuple, interval)
  PROVE  \E n \in DOMAIN tuple : Group(tuple, key, interval)[1] = tuple[n]
<1> DEFINE P == {n \in DOMAIN tuple : Key(tuple[n], interval) = key}
           group == Group(tuple, key, interval)
<1>1. P \in SUBSET DOMAIN tuple /\ group = Ordered(tuple, P)
  BY DEF Group
<1>2. Len(group) \in Nat \ {0}
  BY GroupIs
<1> HIDE DEF P, group
<1>3. Len(group) = Cardinality(P)
  BY <1>1, OrderedIs
<1>4. 1 \in 1 .. Cardinality(P)
  BY <1>2, <1>3
<1>5. \E n \in P : Ordered(tuple, P)[1] = tuple[n]
  BY <1>1, <1>4, OrderedAt
<1>6. QED
  BY <1>1, <1>5 DEF group

(* They are resampled without failing, and once more.                       *)
LEMMA CompleteResampled ==
  ASSUME NEW tuple \in Seq(Event), NEW interval \in Nat \ {0}, NEW left \in Nat,
         Complete(tuple, interval), Fitting(tuple, interval, left + 1)
  PROVE  /\ CanResample(tuple, interval)
         /\ Complete(Resampled(tuple, interval), interval)
         /\ Fitting(Resampled(tuple, interval), interval, left)
<1> DEFINE bars == Resampled(tuple, interval)
<1>1. bars \in Seq(Event)
  BY ResampledIs
<1>2. PICK key : BarsBy(bars, tuple, interval, key)
  BY BarsAre DEF BarsBy
<1> HIDE DEF bars
<1>3. ASSUME NEW i \in DOMAIN bars
      PROVE  /\ bars[i].payload.kind = "bar"
             /\ bars[i].event_time = EndOf(bars[i].event_time, interval)
             /\ bars[i].event_time <= bars[i].available_time
             /\ \E n \in DOMAIN tuple : /\ bars[i].instrument_id = tuple[n].instrument_id
                                        /\ Bucket(bars[i], interval) = Bucket(tuple[n], interval)
             /\ \E n \in DOMAIN tuple : bars[i].source_length = tuple[n].source_length + 23
  <2> DEFINE group == Group(tuple, key[i], interval)
             a == bars[i].available_time
  <2>1. /\ key[i] \in Keys(tuple, interval)
        /\ bars[i] = MergedBar(group, key[i], interval, bars[i].sequence)
    BY <1>2 DEF BarsBy
  <2>2. /\ bars[i].payload.kind = "bar" /\ a = AvailableTime(group)
        /\ bars[i].event_time = (key[i][2] + 1) * interval
        /\ bars[i].instrument_id = key[i][1]
        /\ bars[i].source_length = group[1].source_length + 23
    <3> HIDE DEF group
    <3>1. /\ MergedBar(group, key[i], interval, bars[i].sequence).payload.kind = "bar"
          /\ MergedBar(group, key[i], interval, bars[i].sequence).available_time
               = AvailableTime(group)
          /\ MergedBar(group, key[i], interval, bars[i].sequence).event_time
               = (key[i][2] + 1) * interval
          /\ MergedBar(group, key[i], interval, bars[i].sequence).instrument_id = key[i][1]
          /\ MergedBar(group, key[i], interval, bars[i].sequence).source_length
               = group[1].source_length + 23
      BY DEF MergedBar, MergedPayload
    <3>2. QED
      BY <2>1, <3>1
  <2>3. PICK n \in DOMAIN tuple : key[i] = Key(tuple[n], interval)
    BY <2>1 DEF Keys
  <2>4. tuple[n].event_time \in Nat
    <3>1. tuple[n] \in Event
      OBVIOUS
    <3>2. QED
      BY <3>1 DEF Event
  <2>5. bars[i].event_time = EndOf(tuple[n].event_time, interval)
    BY <2>2, <2>3 DEF Key, Bucket, EndOf
  <2>6. /\ (bars[i].event_time - 1) \div interval = (tuple[n].event_time - 1) \div interval
        /\ bars[i].event_time \in Nat
    BY <2>4, <2>5, EndIs
  <2>7. bars[i].event_time = EndOf(bars[i].event_time, interval)
    BY <2>5, <2>6 DEF EndOf
  <2>8. PICK m \in DOMAIN tuple : /\ tuple[m].instrument_id = tuple[n].instrument_id
                                  /\ tuple[m].event_time = bars[i].event_time
                                  /\ tuple[m].event_time <= tuple[m].available_time
    BY <2>5 DEF Complete
  <2>9. Key(tuple[m], interval) = key[i]
    BY <2>3, <2>6, <2>8 DEF Key, Bucket
  <2>10. bars[i] \in Event /\ tuple[m] \in Event
    BY <1>1
  <2>11. /\ a \in Nat /\ tuple[m].available_time \in Nat
         /\ bars[i].event_time \in Nat /\ tuple[m].event_time \in Nat
    BY <2>10 DEF Event
  <2>16. bars[i].instrument_id = tuple[n].instrument_id
         /\ Bucket(bars[i], interval) = Bucket(tuple[n], interval)
    BY <2>2, <2>3, <2>6 DEF Key, Bucket
  <2>17. \E p \in DOMAIN tuple : bars[i].source_length = tuple[p].source_length + 23
    <3> HIDE DEF group
    <3>1. \E p \in DOMAIN tuple : group[1] = tuple[p]
      BY <2>1, GroupStarts DEF group
    <3>2. QED
      BY <2>2, <3>1
  <2> HIDE DEF a, group
  <2>12. a <= a /\ AvailableTime(group) <= a
    BY <2>2, <2>11 DEF a
  <2>13. tuple[m].available_time <= a
    BY <2>1, <2>9, <2>11, <2>12, BarAvailable DEF group
  <2>14. bars[i].event_time <= a
    BY <2>8, <2>11, <2>13
  <2>15. QED
    BY <2>2, <2>7, <2>14, <2>16, <2>17 DEF a
<1>4. Complete(bars, interval)
  BY <1>3 DEF Complete
<1>5. AllBars(tuple) /\ TimesValid(bars)
  BY <1>3 DEF Complete, AllBars, TimesValid, ToSet
<1>6. Fitting(bars, interval, left)
  <2> SUFFICES ASSUME NEW i \in DOMAIN bars
               PROVE  /\ bars[i].source_length + 23 * left <= Room
                      /\ \A j \in {bars[i].instrument_id} \cup Range(policy.mapping) :
                           EventIdLength(<<j, Bucket(bars[i], interval)>>) <= Room
    BY DEF Fitting
  <2>1. bars[i].source_length + 23 * left <= Room
    <3>1. PICK p \in DOMAIN tuple : bars[i].source_length = tuple[p].source_length + 23
      BY <1>3
    <3>2. tuple[p] \in Event /\ tuple[p].source_length + 23 * (left + 1) <= Room
      BY DEF Fitting
    <3>3. tuple[p].source_length \in Nat
      BY <3>2 DEF Event
    <3>4. QED
      BY <3>1, <3>2, <3>3 DEF Room
  <2>2. PICK n \in DOMAIN tuple : /\ bars[i].instrument_id = tuple[n].instrument_id
                                 /\ Bucket(bars[i], interval) = Bucket(tuple[n], interval)
    BY <1>3
  <2>3. QED
    BY <2>1, <2>2 DEF Fitting
<1>7. IdentifiersFit(tuple, interval)
  <2>1. ASSUME NEW i \in DOMAIN bars PROVE bars[i].source_length <= Room
    <3>1. bars[i] \in Event /\ bars[i].source_length + 23 * left <= Room
      BY <1>1, <1>6 DEF Fitting
    <3>2. bars[i].source_length \in Nat
      BY <3>1 DEF Event
    <3>3. QED
      BY <3>1, <3>2 DEF Room
  <2>2. ASSUME NEW n \in DOMAIN tuple PROVE EventIdLength(Key(tuple[n], interval)) <= Room
    BY DEF Fitting, Key
  <2>3. QED
    BY <2>1, <2>2 DEF IdentifiersFit, ToSet, bars
<1>8. QED
  BY <1>4, <1>5, <1>6, <1>7 DEF CanResample, bars

(* A symbol map leaves them so.                                             *)
LEMMA CompleteMapped ==
  ASSUME NEW tuple \in Seq(Event), NEW interval, NEW left \in Nat,
         Complete(tuple, interval), Fitting(tuple, interval, left + 1), NEW mapping,
         \A i \in DOMAIN mapping : mapping[i] \in DOMAIN InstrumentRank,
         \A i \in DOMAIN mapping : mapping[i] \in Range(policy.mapping)
  PROVE  /\ Complete(MapSymbols(tuple, mapping), interval)
         /\ Fitting(MapSymbols(tuple, mapping), interval, left)
<1> DEFINE t == MapSymbols(tuple, mapping)
           To(i) == IF i \in DOMAIN mapping THEN mapping[i] ELSE i
<1>1. ASSUME NEW n \in DOMAIN tuple
      PROVE  /\ t[n].instrument_id = To(tuple[n].instrument_id)
             /\ t[n].event_time = tuple[n].event_time
             /\ t[n].available_time = tuple[n].available_time /\ t[n].payload = tuple[n].payload
             /\ t[n].source_length \in {tuple[n].source_length, tuple[n].source_length + 21}
  BY MapsIs DEF ButForName
<1>2. DOMAIN t = DOMAIN tuple
  BY DEF MapSymbols
<1> HIDE DEF t, To
<1>3. ASSUME NEW n \in DOMAIN tuple
      PROVE  /\ t[n].payload.kind = "bar" /\ t[n].event_time <= t[n].available_time
             /\ \E m \in DOMAIN tuple : /\ t[m].instrument_id = t[n].instrument_id
                                        /\ t[m].event_time = EndOf(t[n].event_time, interval)
  <2>1. PICK m \in DOMAIN tuple :
          /\ tuple[m].instrument_id = tuple[n].instrument_id
          /\ tuple[m].event_time = EndOf(tuple[n].event_time, interval)
    BY DEF Complete
  <2>2. tuple[n].payload.kind = "bar" /\ tuple[n].event_time <= tuple[n].available_time
    BY DEF Complete
  <2>3. t[m].instrument_id = t[n].instrument_id
        /\ t[m].event_time = EndOf(t[n].event_time, interval)
    BY <1>1, <2>1
  <2>4. QED
    BY <1>1, <2>2, <2>3
<1>4. Complete(t, interval)
  BY <1>2, <1>3 DEF Complete
<1>5. ASSUME NEW n \in DOMAIN tuple
      PROVE  /\ t[n].source_length + 23 * left <= Room
             /\ \A j \in {t[n].instrument_id} \cup Range(policy.mapping) :
                  EventIdLength(<<j, Bucket(t[n], interval)>>) <= Room
  <2>1. tuple[n] \in Event /\ tuple[n].source_length + 23 * (left + 1) <= Room
    BY DEF Fitting
  <2>2. tuple[n].source_length \in Nat
    BY <2>1 DEF Event
  <2>3. t[n].source_length + 23 * left <= Room
    BY <1>1, <2>1, <2>2 DEF Room
  <2>4. Bucket(t[n], interval) = Bucket(tuple[n], interval)
    BY <1>1 DEF Bucket
  <2>5. t[n].instrument_id \in {tuple[n].instrument_id} \cup Range(policy.mapping)
    BY <1>1 DEF To
  <2>6. QED
    BY <2>3, <2>4, <2>5 DEF Fitting
<1>6. QED
  BY <1>2, <1>4, <1>5 DEF Fitting, t

(* A symbol is mapped to one that the policy maps to.                       *)
LEMMA MapTargets ==
  ASSUME NEW r \in PlanRecords, r.transformation_id = "symbol.map.v1"
  PROVE  \A i \in DOMAIN r.mapping : r.mapping[i] \in Range(policy.mapping)
<1>1. r \in MapRecords
  BY DEF PlanRecords, ExactRecord, ResampleRecords, ResampleRecord
<1>2. PICK q \in Required, s \in Held : r = MapRecord(q, s)
  BY <1>1 DEF MapRecords
<1>3. r.mapping = RelevantMapping(s, q.symbols)
  BY <1>2 DEF MapRecord
<1>4. QED
  BY <1>3 DEF RelevantMapping, Restrict, Range

(* Of each requirement, that the dataset has every bar of its stream's grid *)
(* in every interval it has a bar in.                                       *)
AllWhole ==
  \A n \in DOMAIN strategy.requirements :
    Whole(FindStream(strategy.requirements[n].stream_id), strategy.requirements[n])

LEMMA CompleteApplied ==
  ASSUME request \in Requests, ConvertedAlike, NEW q \in Required, q.timeframe.interval # 0,
         NEW r \in PlanRecords, NEW tuple \in Seq(Event), NEW left \in Nat,
         Complete(tuple, q.timeframe.interval),
         Fitting(tuple, q.timeframe.interval, left + 1)
  PROVE  /\ Applicable(r, tuple)
         /\ Complete(Applied(r, tuple), q.timeframe.interval)
         /\ Fitting(Applied(r, tuple), q.timeframe.interval, left)
<1> DEFINE interval == q.timeframe.interval
<1>1. interval \in Nat \ {0}
  BY RequestsAssumption DEF Required, strategy
<1>2. CASE r.result = "EXACT" /\ r.transformation_id = "none"
  <2>1. Applied(r, tuple) = tuple /\ Applicable(r, tuple)
    BY <1>2 DEF Applied, Applicable
  <2>2. ASSUME NEW n \in DOMAIN tuple PROVE tuple[n].source_length + 23 * left <= Room
    <3>1. tuple[n] \in Event /\ tuple[n].source_length + 23 * (left + 1) <= Room
      BY DEF Fitting
    <3>2. tuple[n].source_length \in Nat
      BY <3>1 DEF Event
    <3>3. QED
      BY <3>1, <3>2 DEF Room
  <2>3. Fitting(tuple, interval, left)
    BY <2>2 DEF Fitting
  <2>4. QED
    BY <2>1, <2>3
<1>3. CASE /\ r.result = "TRANSFORMED_LOSSLESS" /\ r.transformation_id = "symbol.map.v1"
           /\ \A i \in DOMAIN r.mapping : r.mapping[i] \in DOMAIN InstrumentRank
  <2>1. Applied(r, tuple) = MapSymbols(tuple, r.mapping) /\ Applicable(r, tuple)
    BY <1>3 DEF Applied, Applicable
  <2>2. \A i \in DOMAIN r.mapping : r.mapping[i] \in Range(policy.mapping)
    BY <1>3, MapTargets
  <2>3. QED
    BY <1>3, <2>1, <2>2, CompleteMapped
<1>4. CASE r.result = "TRANSFORMED_LOSSY" /\ r.transformation_id = "bar.resample.v1"
  <2>1. r \in ResampleRecords
    BY <1>4 DEF PlanRecords, MapRecords, ExactRecord, MapRecord
  <2>2. PICK p \in Required, s \in Held : r = ResampleRecord(p, s)
    BY <2>1 DEF ResampleRecords
  <2>3. r.target_interval = interval
    BY <2>2 DEF ResampleRecord, ConvertedAlike, Required
  <2>4. Applied(r, tuple) = Resampled(tuple, interval)
        /\ (Applicable(r, tuple) <=> CanResample(tuple, interval))
    BY <1>4, <2>3 DEF Applied, Applicable
  <2> HIDE DEF interval
  <2>5. /\ CanResample(tuple, interval) /\ Complete(Resampled(tuple, interval), interval)
        /\ Fitting(Resampled(tuple, interval), interval, left)
    BY <1>1, CompleteResampled DEF interval
  <2>6. QED
    BY <2>4, <2>5 DEF interval
<1>5. QED
  BY <1>2, <1>3, <1>4, RecordsAre

(* A tape that has every bar of its streams' grids has the last of every    *)
(* interval.                                                                *)
LEMMA TapeComplete ==
  ASSUME request \in Requests, Fit, ConvertedAlike, AllWhole,
         NEW q \in Required, q.timeframe.interval # 0
  PROVE  Complete(tape, q.timeframe.interval)
<1> DEFINE interval == q.timeframe.interval
<1>1. interval \in Nat \ {0}
  BY RequestsAssumption DEF Required, strategy
<1>2. tape \in Seq(Event) /\ \A n \in DOMAIN tape : tape[n].event_time <= tape[n].available_time
  BY RequestsAssumption DEF tape
<1>3. ASSUME NEW n \in DOMAIN tape
      PROVE  /\ tape[n].payload.kind = "bar"
             /\ \E m \in DOMAIN tape :
                  /\ tape[m].instrument_id = tape[n].instrument_id
                  /\ tape[m].event_time = EndOf(tape[n].event_time, interval)
  <2> DEFINE e == tape[n]
             end == EndOf(e.event_time, interval)
  <2>1. e \in ToSet(tape) /\ e \in Event
    BY <1>2 DEF ToSet
  <2>2. e.event_time \in Nat
    BY <2>1 DEF Event
  <2>3. PICK k \in DOMAIN strategy.requirements :
          e.source = FindStream(strategy.requirements[k].stream_id).stream_id
    BY <2>1 DEF ConvertedAlike
  <2> DEFINE p == strategy.requirements[k]
             stream == FindStream(p.stream_id)
             grid == stream.timeframe.interval
  <2>4. p \in Required /\ p.timeframe.interval = interval
    BY DEF Required, ConvertedAlike
  <2>5. Failing(RequirementChecks(p)) = {}
    <3>1. Fits(p)
      BY DEF Fit
    <3>2. QED
      BY <3>1, RequirementChecked
  <2>6. stream \in Held /\ (MustResample(p, stream) => ResampleAllowed(stream, p.timeframe))
    BY <2>5, RequirementAccepted
  <2>7. grid \in Nat
    BY <2>6, RequestsAssumption DEF Held, streams
  <2>8. grid # 0 /\ interval % grid = 0
    <3>1. CASE MustResample(p, stream)
      BY <2>4, <2>6, <2>7, <3>1 DEF ResampleAllowed, CanResampleStream
    <3>2. CASE ~MustResample(p, stream)
      <4>1. grid = interval
        BY <2>4, <3>2 DEF MustResample
      <4>2. interval % interval = 0
        BY <1>1
      <4>3. QED
        BY <1>1, <4>1, <4>2
    <3>3. QED
      BY <3>1, <3>2
  <2>9. Whole(stream, p)
    BY DEF AllWhole
  <2>10. e.source = stream.stream_id
    BY <2>3
  <2>11. e.payload.kind = "bar"
    BY <2>1 DEF ConvertedAlike
  <2> HIDE DEF p, stream, grid
  <2>12. CASE e.event_time = 0
    <3>1. end = e.event_time
      BY <1>1, <2>2, <2>12, EndIs
    <3>2. QED
      BY <2>11, <3>1
  <2>13. CASE e.event_time > 0
    <3> DEFINE close == EndOf(e.event_time, interval)
    <3>1. /\ close = interval * ((e.event_time + interval - 1) \div interval)
          /\ close \in close - interval + 1 .. close
      <4>1. close \in Nat /\ close = interval * ((e.event_time + interval - 1) \div interval)
        BY <1>1, <2>2, EndIs
      <4> HIDE DEF close
      <4>2. QED
        BY <1>1, <4>1
    <3>2. close % grid = 0
      BY <1>1, <2>2, <2>7, <2>8, EndIs
    <3> HIDE DEF close, interval, e
    <3>3. \E d \in ToSet(tape) : /\ d.source = stream.stream_id
                                 /\ d.instrument_id = e.instrument_id
                                 /\ d.event_time = close
      BY <2>1, <2>4, <2>9, <2>10, <2>13, <3>1, <3>2 DEF Whole, grid
    <3>4. PICK m \in DOMAIN tape : /\ tape[m].instrument_id = e.instrument_id
                                   /\ tape[m].event_time = close
      BY <3>3 DEF ToSet
    <3>5. QED
      BY <2>11, <3>4 DEF close, interval, e
  <2>14. e.event_time = 0 \/ e.event_time > 0
    BY <2>2
  <2>15. QED
    BY <2>12, <2>13, <2>14
<1>4. QED
  BY <1>2, <1>3 DEF Complete

(* Roomy names leave room for the records of the plan.                      *)
LEMMA TapeFitting ==
  ASSUME Roomy, NEW q \in Required, q.timeframe.interval # 0
  PROVE  Fitting(tape, q.timeframe.interval, Len(records))
<1>1. PICK k \in DOMAIN strategy.requirements : q = strategy.requirements[k]
  BY DEF Required
<1>2. \A n \in DOMAIN tape : tape[n] \in ToSet(tape)
  BY DEF ToSet
<1>3. QED
  BY <1>1, <1>2 DEF Roomy, Fitting

(* The invariant: while a plan is applied to whole data under roomy names,  *)
(* no interval lacks its last bar, and there is room for what remains.      *)
WholeInv ==
  /\ stage \in {"declaration", "requirement"} => events = tape
  /\ ConvertedAlike /\ AllWhole /\ Roomy =>
       /\ stage # "failed"
       /\ stage = "planned" =>
            \A q \in Required :
              q.timeframe.interval # 0 =>
                /\ Complete(events, q.timeframe.interval)
                /\ Fitting(events, q.timeframe.interval, Len(records) + 1 - next)

(* What is converted alike and whole is decided by the request, which stays.*)
LEMMA WholeStep == CompileInv /\ CompileInv' /\ PlanInv /\ WholeInv /\ [Next]_vars => WholeInv'
<1> SUFFICES ASSUME CompileInv, CompileInv', PlanInv, WholeInv, [Next]_vars PROVE WholeInv'
  OBVIOUS
<1>1. request \in Requests /\ records \in Seq(PlanRecords) /\ events \in Seq(Event)
  BY DEF CompileInv, PlanInv
<1>2. request' = request
  BY DEF Next, RefuseDeclaration, AcceptDeclaration, RefuseRequirement, AcceptRequirement,
         RefuseSandbox, Refuse, Plan, Apply, ApplyFails, Deliver, Ended, vars
<1>3. tape' = tape /\ Required' = Required /\ policy' = policy
  BY <1>2 DEF tape, Required, strategy, policy
<1>4. (ConvertedAlike' <=> ConvertedAlike) /\ (AllWhole' <=> AllWhole) /\ (Fit' <=> Fit)
  <2>1. ConvertedAlike' <=> ConvertedAlike
    BY <1>2 DEF ConvertedAlike, tape, strategy, FindStream, Streams, streams
  <2>2. AllWhole' <=> AllWhole
    BY <1>2 DEF AllWhole, Whole, tape, strategy, FindStream, Streams, streams
  <2>3. Fit' <=> Fit
    BY <1>2 DEF Fit, Fits, Provided, Reversible, Reachable, strategy, engine, policy, streams
  <2>4. QED
    BY <2>1, <2>2, <2>3
<1> DEFINE Good == ConvertedAlike /\ AllWhole /\ Roomy
           Left == Len(records) + 1 - next
<1>5. records' = records => (Good' <=> Good)
  <2>1. records' = records => (Roomy' <=> Roomy)
    BY <1>2 DEF Roomy, tape, strategy, policy
  <2>2. QED
    BY <1>4, <2>1
<1>6. CASE RefuseDeclaration \/ RefuseRequirement \/ RefuseSandbox
  <2>1. stage' = "refused"
    BY <1>6 DEF RefuseDeclaration, RefuseRequirement, RefuseSandbox, Refuse
  <2>2. QED
    BY <2>1 DEF WholeInv
<1>7. CASE AcceptDeclaration \/ AcceptRequirement
  <2>1. stage \in {"declaration", "requirement"} /\ stage' = "requirement" /\ events' = events
    BY <1>7 DEF AcceptDeclaration, AcceptRequirement
  <2>2. events' = tape'
    BY <1>3, <2>1 DEF WholeInv
  <2>3. QED
    BY <2>1, <2>2 DEF WholeInv
<1>8. CASE Plan
  <2>1. /\ stage = "requirement" /\ stage' = "planned" /\ events' = events /\ events = tape
        /\ next' = 1 /\ records' = records
    BY <1>8 DEF Plan, WholeInv
  <2>2. Fit
    BY <1>4, <2>1 DEF CompileInv, RefusedIffUnfit
  <2>3. Left' = Len(records)
    <3>1. Len(records) \in Nat
      BY <1>1
    <3>2. QED
      BY <2>1, <3>1
  <2> HIDE DEF Left
  <2>4. ASSUME Good, NEW q \in Required, q.timeframe.interval # 0
        PROVE  /\ Complete(events', q.timeframe.interval)
               /\ Fitting(events', q.timeframe.interval, Left')
    <3>1. Complete(events', q.timeframe.interval)
      BY <1>1, <2>1, <2>2, <2>4, TapeComplete
    <3>2. Fitting(events', q.timeframe.interval, Left')
      BY <2>1, <2>3, <2>4, TapeFitting
    <3>3. QED
      BY <3>1, <3>2
  <2>5. QED
    BY <1>3, <1>5, <2>1, <2>4 DEF WholeInv, Left, Fitting
<1>9. ASSUME Apply \/ ApplyFails, Good, NEW q \in Required, q.timeframe.interval # 0
      PROVE  /\ Applicable(records[next], events)
             /\ Complete(Applied(records[next], events), q.timeframe.interval)
             /\ Fitting(Applied(records[next], events), q.timeframe.interval, Len(records) - next)
  <2>1. stage = "planned" /\ next \in DOMAIN records /\ records[next] \in PlanRecords
    BY <1>1, <1>9 DEF Apply, ApplyFails
  <2>2. Len(records) - next \in Nat /\ Left = (Len(records) - next) + 1
    BY <1>1, <2>1
  <2>3. /\ Complete(events, q.timeframe.interval)
        /\ Fitting(events, q.timeframe.interval, (Len(records) - next) + 1)
    BY <1>9, <2>1, <2>2 DEF WholeInv
  <2>4. QED
    BY <1>1, <1>9, <2>1, <2>2, <2>3, CompleteApplied
<1>10. CASE Apply
  <2>1. /\ stage' = "planned" /\ events' = Applied(records[next], events)
        /\ records' = records /\ next' = next + 1 /\ next \in DOMAIN records
    BY <1>10 DEF Apply
  <2>2. Left' = Len(records) - next
    <3>1. Len(records) \in Nat /\ next \in Nat
      BY <1>1, <2>1
    <3>2. QED
      BY <2>1, <3>1
  <2>3. ASSUME Good, NEW q \in Required, q.timeframe.interval # 0
        PROVE  /\ Complete(events', q.timeframe.interval)
               /\ Fitting(events', q.timeframe.interval, Left')
    BY <1>9, <1>10, <2>1, <2>2, <2>3
  <2>4. QED
    BY <1>3, <1>5, <2>1, <2>3 DEF WholeInv, Fitting
<1>11. CASE ApplyFails
  <2>1. /\ stage = "planned" /\ stage' = "failed" /\ records[next] \in PlanRecords
        /\ ~Applicable(records[next], events) /\ records' = records
    BY <1>1, <1>11 DEF ApplyFails
  <2>2. PICK q \in Required : q.timeframe.interval # 0
    <3>1. records[next] \in ResampleRecords
      BY <2>1 DEF PlanRecords, MapRecords, ExactRecord, MapRecord, Applicable
    <3>2. PICK q \in Required, s \in Held : records[next] = ResampleRecord(q, s)
      BY <3>1 DEF ResampleRecords
    <3>3. records[next].target_interval # 0
      BY <1>1, <2>1, RecordsAre DEF Applicable
    <3>4. QED
      BY <3>2, <3>3 DEF ResampleRecord
  <2>3. ~Good
    BY <1>9, <1>11, <2>1, <2>2
  <2>4. QED
    BY <1>5, <2>1, <2>3 DEF WholeInv
<1>12. CASE Deliver
  <2>1. stage' = "delivered"
    BY <1>12 DEF Deliver
  <2>2. QED
    BY <2>1 DEF WholeInv
<1>13. CASE UNCHANGED vars
  <2>1. stage' = stage /\ events' = events /\ records' = records /\ next' = next
    BY <1>13 DEF vars
  <2>2. QED
    BY <1>3, <1>5, <2>1 DEF WholeInv, Fitting
<1>14. QED
  BY <1>6, <1>7, <1>8, <1>10, <1>11, <1>12, <1>13 DEF Next, Ended

(* A run whose streams are converted alike fails only on data that lack a   *)
(* bar of an interval they have bars in, or on names too long for what is   *)
(* put around them: with every bar of the grid there, what resample_bars    *)
(* makes of an interval is never available before the interval ends, so     *)
(* that MarketEvent's validators take it, in every resampling of the plan   *)
(* (compatibility.py:58-95, market.py:95-103).                              *)
THEOREM WholeDataConverts == Spec => [](ConvertedAlike => WholeTapesConvert)
<1>1. WholeInv => (ConvertedAlike => WholeTapesConvert)
  BY DEF WholeInv, WholeTapesConvert, AllWhole
<1>2. Init => WholeInv
  BY DEF Init, WholeInv, tape
<1>3. CompileInv /\ PlanInv /\ WholeInv /\ CompileInv' /\ [Next]_vars => WholeInv'
  BY WholeStep
<1>4. QED
  BY <1>1, <1>2, <1>3, PlanInvariant, PTL DEF Spec

-----------------------------------------------------------------------------
(* A running sum over an enumeration without repetition is the sum.         *)
Enumerates(at, N, S) ==
  /\ N \in Nat /\ at \in [1 .. N -> S]
  /\ \A x \in S : \E k \in 1 .. N : at[k] = x
  /\ \A j, k \in 1 .. N : j < k => at[j] # at[k]

RunsOver(run, at, g, N) ==
  run[0] = 0 /\ \A k \in 1 .. N : run[k] = run[k - 1] + g[at[k]]

LEMMA RunningSum ==
  ASSUME NEW S, IsFiniteSet(S), NEW g \in [S -> Int], NEW G, Additive(G, g, S),
         NEW N, NEW at, Enumerates(at, N, S), NEW run, RunsOver(run, at, g, N)
  PROVE  run[N] = G[S]
<1>0. /\ N \in Nat /\ at \in [1 .. N -> S]
      /\ \A x \in S : \E k \in 1 .. N : at[k] = x
      /\ \A j, k \in 1 .. N : j < k => at[j] # at[k]
      /\ run[0] = 0 /\ \A k \in 1 .. N : run[k] = run[k - 1] + g[at[k]]
  BY DEF Enumerates, RunsOver
<1> DEFINE First(k) == {at[j] : j \in 1 .. k}
           I == {k \in Nat : k <= N => run[k] = G[First(k)]}
<1>1. 0 \in I
  <2>1. First(0) = {}
    OBVIOUS
  <2>2. QED
    BY <1>0, <2>1 DEF Additive
<1>2. ASSUME NEW k \in Nat, k \in I, k + 1 <= N
      PROVE  run[k + 1] = G[First(k + 1)]
  <2>1. k + 1 \in 1 .. N /\ (k + 1) - 1 = k /\ k <= N
    BY <1>0, <1>2
  <2>2. run[k + 1] = run[k] + g[at[k + 1]] /\ run[k] = G[First(k)]
    BY <1>0, <1>2, <2>1
  <2>3. First(k) \in SUBSET S /\ at[k + 1] \in S /\ at[k + 1] \notin First(k)
    BY <1>0, <2>1
  <2>4. First(k + 1) = First(k) \cup {at[k + 1]}
    <3>1. 1 .. (k + 1) = (1 .. k) \cup {k + 1}
      BY <2>1
    <3>2. QED
      BY <3>1
  <2> HIDE DEF First
  <2>5. G[First(k) \cup {at[k + 1]}] = G[First(k)] + g[at[k + 1]]
    BY <2>3 DEF Additive
  <2>6. QED
    BY <2>2, <2>4, <2>5
<1>3. First(N) = S
  BY <1>0
<1> HIDE DEF First
<1>4. \A k \in Nat : k \in I => k + 1 \in I
  BY <1>2
<1> HIDE DEF I
<1>5. N \in I
  BY <1>0, <1>1, <1>4, Inductive
<1>6. QED
  BY <1>0, <1>3, <1>5 DEF I

Volumes(B) == [b \in B |-> b.payload.volume]

LEMMA VolumesAre ==
  ASSUME NEW B \in SUBSET Event
  PROVE  Volumes(B) \in [B -> Int] /\ \A b \in B : Volumes(B)[b] = b.payload.volume
<1>1. \A e \in Event : e.payload.volume \in Int
  BY DEF Event
<1>2. QED
  BY <1>1 DEF Volumes

LEMMA VolumesSummed ==
  ASSUME NEW B, IsFiniteSet(B), NEW g \in [B -> Int], \A b \in B : g[b] = b.payload.volume,
         NEW G, Additive(G, g, B)
  PROVE  TotalVolume(B) = G[B]
<1> DEFINE Step(R) == [s \in SUBSET B |-> IF s = {} THEN 0
                                          ELSE (Pick(s)).payload.volume + R[s \ {Pick(s)}]]
           iter == CHOOSE R : R = Step(R)
<1>1. TotalVolume(B) = iter[B]
  BY DEF TotalVolume, MapThenSumSet, MapThenFoldSet, Pick
<1>2. Picking(G, g, B)
  BY AdditivePicks
<1>3. G = Step(G)
  <2>1. G = [T \in SUBSET B |-> G[T]]
    BY DEF Additive
  <2>2. \A T \in SUBSET B : T # {} => g[Pick(T)] = (Pick(T)).payload.volume
    BY PickIs
  <2>3. \A T \in SUBSET B :
          G[T] = IF T = {} THEN 0 ELSE (Pick(T)).payload.volume + G[T \ {Pick(T)}]
    BY <1>2, <2>2 DEF Picking
  <2>4. QED
    BY <2>1, <2>3
<1>4. iter = Step(iter)
  BY <1>3
<1> HIDE DEF iter
<1>5. Picking(iter, g, B)
  <2>1. ASSUME NEW T \in SUBSET B
        PROVE  iter[T] = IF T = {} THEN 0 ELSE g[Pick(T)] + iter[T \ {Pick(T)}]
    <3>1. iter[T] = IF T = {} THEN 0 ELSE (Pick(T)).payload.volume + iter[T \ {Pick(T)}]
      BY <1>4
    <3>2. T # {} => Pick(T) \in B
      BY PickIs
    <3>3. QED
      BY <3>1, <3>2
  <2>2. QED
    BY <2>1 DEF Picking
<1>6. iter[B] = G[B]
  BY <1>5, PickingIs
<1>7. QED
  BY <1>1, <1>6

(* The volume of a merged bar is the sum over the bars it is made of.       *)
LEMMA VolumeOwed ==
  ASSUME NEW group \in Seq(Event), NEW raw \in Seq(Event), Len(raw) = Len(group),
         \A k \in 1 .. Len(raw) : raw[k].payload = group[k].payload,
         \A j, k \in 1 .. Len(raw) : j < k => raw[j].event_time < raw[k].event_time
  PROVE  VolumeOf(group) = TotalVolume({raw[k] : k \in 1 .. Len(raw)})
<1> DEFINE N == Len(raw)
           B == {raw[k] : k \in 1 .. N}
<1>1. N \in Nat /\ raw \in [1 .. N -> Event] /\ B \in SUBSET Event
  OBVIOUS
<1>2. \A x \in B : \E k \in 1 .. N : raw[k] = x
  OBVIOUS
<1>3. raw \in [1 .. N -> B]
  BY <1>1
<1>4. \A j, k \in 1 .. N : j < k => raw[j] # raw[k]
  <2>1. \A k \in 1 .. N : raw[k].event_time \in Nat
    BY <1>1 DEF Event
  <2>2. QED
    BY <2>1
<1>5. N = Len(group)
  OBVIOUS
<1>6. \A k \in 1 .. N : group[k].payload = raw[k].payload
  OBVIOUS
<1> HIDE DEF N, B
<1>7. IsFiniteSet(B)
  <2>1. raw \in Surjection(1 .. N, B)
    BY <1>2, <1>3 DEF Surjection
  <2>2. IsFiniteSet(1 .. N)
    BY <1>1, FS_Interval
  <2>3. QED
    BY <2>1, <2>2, FS_Surjection
<1>8. Volumes(B) \in [B -> Int] /\ \A b \in B : Volumes(B)[b] = b.payload.volume
  BY <1>1, VolumesAre
<1>9. PICK G : Additive(G, Volumes(B), B)
  BY <1>7, <1>8, AdditiveExists
<1>10. PICK run :
         /\ run[0] = 0 /\ VolumeOf(group) = run[N]
         /\ \A k \in 1 .. N : run[k] = run[k - 1] + group[k].payload.volume
  BY <1>5, VolumeSums
<1>11. \A k \in 1 .. N : run[k] = run[k - 1] + Volumes(B)[raw[k]]
  BY <1>3, <1>6, <1>8, <1>10
<1>12. run[N] = G[B]
  <2>1. Enumerates(raw, N, B) /\ RunsOver(run, raw, Volumes(B), N)
    BY <1>1, <1>2, <1>3, <1>4, <1>10, <1>11 DEF Enumerates, RunsOver
  <2>2. QED
    BY <1>7, <1>8, <1>9, <2>1, RunningSum
<1>13. TotalVolume(B) = G[B]
  BY <1>7, <1>8, <1>9, VolumesSummed
<1>14. VolumeOf(group) = TotalVolume(B)
  BY <1>10, <1>12, <1>13
<1>15. QED
  BY <1>14 DEF B, N

(* Two tuples of one tape's events, but for the names.                      *)
Renames(tuple, raw) ==
  /\ tuple \in Seq(Event) /\ raw \in Seq(Event) /\ Len(tuple) = Len(raw)
  /\ \A n \in 1 .. Len(raw) : ButForName(tuple[n], raw[n])

LEMMA RenamesKeeps ==
  ASSUME NEW tuple, NEW raw, Renames(tuple, raw)
  PROVE  /\ DOMAIN tuple = 1 .. Len(raw) /\ DOMAIN raw = 1 .. Len(raw) /\ Len(raw) \in Nat
         /\ \A n \in 1 .. Len(raw) :
              /\ raw[n] \in Event /\ tuple[n] \in Event
              /\ tuple[n].event_time = raw[n].event_time
              /\ tuple[n].available_time = raw[n].available_time
              /\ tuple[n].sequence = raw[n].sequence
              /\ tuple[n].source = raw[n].source
              /\ tuple[n].payload = raw[n].payload
         /\ \A m, n \in 1 .. Len(raw) : Precedes(tuple, m, n) <=> Precedes(raw, m, n)
<1>1. /\ tuple \in Seq(Event) /\ raw \in Seq(Event) /\ Len(tuple) = Len(raw)
      /\ \A n \in 1 .. Len(raw) : ButForName(tuple[n], raw[n])
  BY DEF Renames
<1>2. /\ DOMAIN tuple = 1 .. Len(raw) /\ DOMAIN raw = 1 .. Len(raw) /\ Len(raw) \in Nat
      /\ \A n \in 1 .. Len(raw) : raw[n] \in Event /\ tuple[n] \in Event
  BY <1>1
<1>3. ASSUME NEW n \in 1 .. Len(raw)
      PROVE  /\ tuple[n].event_time = raw[n].event_time
             /\ tuple[n].available_time = raw[n].available_time
             /\ tuple[n].sequence = raw[n].sequence
             /\ tuple[n].source = raw[n].source
             /\ tuple[n].payload = raw[n].payload
  BY <1>1 DEF ButForName
<1>4. ASSUME NEW m \in 1 .. Len(raw), NEW n \in 1 .. Len(raw)
      PROVE  Precedes(tuple, m, n) <=> Precedes(raw, m, n)
  <2>1. /\ tuple[m].available_time = raw[m].available_time /\ tuple[m].sequence = raw[m].sequence
        /\ tuple[n].available_time = raw[n].available_time /\ tuple[n].sequence = raw[n].sequence
    BY <1>3
  <2>2. QED
    BY <2>1 DEF Precedes, Earlier
<1>5. QED
  BY <1>2, <1>3, <1>4

(* The first and the last of bars in the order of their times.              *)
LEMMA Ends ==
  ASSUME NEW raw \in Seq(Event), Len(raw) # 0,
         \A j, k \in 1 .. Len(raw) : j < k => raw[j].event_time < raw[k].event_time
  PROVE  LET B == {raw[k] : k \in 1 .. Len(raw)}
         IN /\ (CHOOSE b \in B : \A c \in B : b.event_time <= c.event_time) = raw[1]
            /\ (CHOOSE b \in B : \A c \in B : b.event_time >= c.event_time) = raw[Len(raw)]
<1> DEFINE N == Len(raw)
           B == {raw[k] : k \in 1 .. N}
<1>1. N \in Nat \ {0} /\ 1 \in 1 .. N /\ N \in 1 .. N
  OBVIOUS
<1>2. \A k \in 1 .. N : raw[k].event_time \in Nat
  <2>1. \A k \in 1 .. N : raw[k] \in Event
    OBVIOUS
  <2>2. QED
    BY <2>1 DEF Event
<1>3. \A k \in 1 .. N : raw[1].event_time <= raw[k].event_time
  BY <1>1, <1>2
<1>4. \A k \in 1 .. N : raw[k].event_time <= raw[N].event_time
  BY <1>1, <1>2
<1>5. \A k \in 1 .. N : k # 1 => raw[1].event_time < raw[k].event_time
  BY <1>1
<1>6. \A k \in 1 .. N : k # N => raw[k].event_time < raw[N].event_time
  BY <1>1
<1>7. raw[1] \in B /\ raw[N] \in B
  BY <1>1
<1>8. /\ \A c \in B : raw[1].event_time <= c.event_time
      /\ \A b \in B : (\A c \in B : b.event_time <= c.event_time) => b = raw[1]
  <2>1. ASSUME NEW k \in 1 .. N, raw[k].event_time <= raw[1].event_time PROVE k = 1
    BY <1>1, <1>2, <1>5, <2>1
  <2>2. QED
    BY <1>3, <1>7, <2>1
<1>9. /\ \A c \in B : raw[N].event_time >= c.event_time
      /\ \A b \in B : (\A c \in B : b.event_time >= c.event_time) => b = raw[N]
  <2>1. ASSUME NEW k \in 1 .. N, raw[k].event_time >= raw[N].event_time PROVE k = N
    BY <1>1, <1>2, <1>6, <2>1
  <2>2. \A k \in 1 .. N : raw[N].event_time >= raw[k].event_time
    BY <1>1, <1>2, <1>4
  <2>3. QED
    BY <1>7, <2>1, <2>2
<1> HIDE DEF B, N
<1>10. (CHOOSE b \in B : \A c \in B : b.event_time <= c.event_time) = raw[1]
  BY <1>7, <1>8
<1>11. (CHOOSE b \in B : \A c \in B : b.event_time >= c.event_time) = raw[N]
  BY <1>7, <1>9
<1>12. QED
  BY <1>10, <1>11 DEF B, N

(* The bar that resample_bars makes of the bars at some positions is the    *)
(* one that is owed for them.                                               *)
InTime(raw, P) == \A m, n \in P : Precedes(raw, m, n) => raw[m].event_time < raw[n].event_time

MadeAsOwed(tuple, raw, P, key, interval, sequence) ==
  LET bar == MergedBar(Ordered(tuple, P), key, interval, sequence)
  IN View(bar.instrument_id, bar.event_time, bar.available_time, bar.payload)
       = OwedBar(key[1], (key[2] + 1) * interval, {raw[n] : n \in P})

LEMMA MergedOwed ==
  ASSUME NEW tuple, NEW X, Renames(tuple, X), NEW P \in SUBSET (1 .. Len(X)), P # {},
         InTime(X, P),
         NEW key, NEW interval, NEW sequence
  PROVE  MadeAsOwed(tuple, X, P, key, interval, sequence)
<1> DEFINE N == Cardinality(P)
           group == Ordered(tuple, P)
           bar == MergedBar(group, key, interval, sequence)
           B == {X[n] : n \in P}
<1>1. /\ DOMAIN tuple = 1 .. Len(X) /\ Len(X) \in Nat /\ tuple \in Seq(Event)
      /\ \A n \in 1 .. Len(X) :
           /\ X[n] \in Event
           /\ tuple[n].available_time = X[n].available_time /\ tuple[n].payload = X[n].payload
      /\ \A m, n \in 1 .. Len(X) : Precedes(tuple, m, n) <=> Precedes(X, m, n)
  <2>1. tuple \in Seq(Event)
    BY DEF Renames
  <2>2. QED
    BY <2>1, RenamesKeeps
<1>2. /\ IsFiniteSet(P) /\ N \in Nat /\ group \in Seq(Event)
      /\ DOMAIN group = 1 .. N /\ Len(group) = N
      /\ \E at \in [1 .. N -> P] :
           /\ \A k \in 1 .. N : group[k] = tuple[at[k]]
           /\ \A n \in P : \E k \in 1 .. N : at[k] = n
           /\ \A j, k \in 1 .. N : j < k => Precedes(tuple, at[j], at[k])
  BY <1>1, OrderedIs
<1> HIDE DEF group, N
<1>3. PICK at \in [1 .. N -> P] :
        /\ \A k \in 1 .. N : group[k] = tuple[at[k]]
        /\ \A n \in P : \E k \in 1 .. N : at[k] = n
        /\ \A j, k \in 1 .. N : j < k => Precedes(tuple, at[j], at[k])
  BY <1>2
<1> DEFINE raw == [k \in 1 .. N |-> X[at[k]]]
<1>4. N \in Nat \ {0}
  <2>1. PICK n \in P : TRUE
    OBVIOUS
  <2>2. PICK k \in 1 .. N : at[k] = n
    BY <1>3, <2>1
  <2>3. QED
    BY <1>2, <2>2
<1>5. raw \in Seq(Event) /\ Len(raw) = N
  <2>1. \A k \in 1 .. N : X[at[k]] \in Event
    BY <1>1, <1>3
  <2>2. raw \in [1 .. N -> Event]
    BY <2>1
  <2>3. N \in Nat
    BY <1>2
  <2> HIDE DEF raw
  <2>4. QED
    BY <2>2, <2>3
<1>6. B = {raw[k] : k \in 1 .. N}
  <2>1. ASSUME NEW n \in P PROVE \E k \in 1 .. N : X[n] = raw[k]
    BY <1>3
  <2>2. ASSUME NEW k \in 1 .. N PROVE \E n \in P : raw[k] = X[n]
    <3>1. at[k] \in P /\ raw[k] = X[at[k]]
      BY <1>3
    <3>2. QED
      BY <3>1
  <2> HIDE DEF raw
  <2>3. B \subseteq {raw[k] : k \in 1 .. N}
    BY <2>1
  <2>4. {raw[k] : k \in 1 .. N} \subseteq B
    BY <2>2
  <2>5. QED
    BY <2>3, <2>4
<1>7. \A k \in 1 .. N : /\ group[k].payload = raw[k].payload
                        /\ group[k].available_time = raw[k].available_time
  BY <1>1, <1>3
<1>8. \A j, k \in 1 .. N : j < k => raw[j].event_time < raw[k].event_time
  BY <1>1, <1>3 DEF InTime
<1> HIDE DEF raw, B
<1>9. /\ (CHOOSE b \in B : \A c \in B : b.event_time <= c.event_time) = raw[1]
      /\ (CHOOSE b \in B : \A c \in B : b.event_time >= c.event_time) = raw[N]
  BY <1>4, <1>5, <1>6, <1>8, Ends
<1>10. VolumeOf(group) = TotalVolume(B)
  <2>1. \A k \in 1 .. Len(raw) : raw[k].payload = group[k].payload
    BY <1>5, <1>7
  <2>2. VolumeOf(group) = TotalVolume({raw[k] : k \in 1 .. Len(raw)})
    BY <1>2, <1>5, <1>8, <2>1, VolumeOwed
  <2>3. QED
    BY <1>5, <1>6, <2>2
<1>11. ToSet(group) = {group[k] : k \in 1 .. N}
  BY <1>2 DEF ToSet
<1>12. /\ {e.available_time : e \in ToSet(group)} = {b.available_time : b \in B}
       /\ {e.payload.high : e \in ToSet(group)} = {b.payload.high : b \in B}
       /\ {e.payload.low : e \in ToSet(group)} = {b.payload.low : b \in B}
  BY <1>6, <1>7, <1>11
<1>13. group[1].payload = raw[1].payload /\ group[Len(group)].payload = raw[N].payload
  BY <1>2, <1>4, <1>7
<1>14. AvailableTime(group) = Max({b.available_time : b \in B})
  BY <1>12 DEF AvailableTime
<1>15. MergedPayload(group)
         = [kind |-> "bar", open |-> raw[1].payload.open, close |-> raw[N].payload.close,
            high |-> Max({b.payload.high : b \in B}), low |-> Min({b.payload.low : b \in B}),
            volume |-> TotalVolume(B)]
  <2>1. MergedPayload(group)
          = [kind   |-> "bar", open |-> group[1].payload.open,
             high   |-> Max({e.payload.high : e \in ToSet(group)}),
             low    |-> Min({e.payload.low : e \in ToSet(group)}),
             close  |-> group[Len(group)].payload.close,
             volume |-> VolumeOf(group)]
    BY DEF MergedPayload, VolumeOf
  <2>2. QED
    BY <1>10, <1>12, <1>13, <2>1
<1>16. /\ bar.instrument_id = key[1] /\ bar.event_time = (key[2] + 1) * interval
       /\ bar.available_time = AvailableTime(group) /\ bar.payload = MergedPayload(group)
  BY DEF MergedBar
<1> HIDE DEF bar
<1>17. OwedBar(key[1], (key[2] + 1) * interval, B)
         = View(key[1], (key[2] + 1) * interval, Max({b.available_time : b \in B}),
                [kind |-> "bar", open |-> raw[1].payload.open, close |-> raw[N].payload.close,
                 high |-> Max({b.payload.high : b \in B}),
                 low |-> Min({b.payload.low : b \in B}), volume |-> TotalVolume(B)])
  BY <1>9 DEF OwedBar
<1>18. View(bar.instrument_id, bar.event_time, bar.available_time, bar.payload)
         = OwedBar(key[1], (key[2] + 1) * interval, B)
  BY <1>14, <1>15, <1>16, <1>17
<1>19. QED
  BY <1>18 DEF bar, B, group, MadeAsOwed

Asked == strategy.requirements[1]
AskedStream == FindStream(Asked.stream_id)

(* The events as they stand before they are resampled, if they are.         *)
Halfway ==
  IF MustMap(Asked, AskedStream)
  THEN MapSymbols(tape, RelevantMapping(AskedStream, Asked.symbols)) ELSE tape

AskedFor(e, symbol) ==
  e.source = AskedStream.stream_id /\ e.instrument_id = SourceSymbol(symbol, AskedStream)

(* What AskedAlone says of the tape and of the mapping.                     *)
LEMMA AloneIs ==
  ASSUME AskedAlone
  PROVE  /\ DOMAIN strategy.requirements = 1 .. Len(strategy.requirements)
              => Required = {Asked}
         /\ Len(strategy.requirements) = 1
         /\ Asked.symbols \cap DOMAIN policy.mapping = {}
         /\ \A n \in DOMAIN tape :
              tape[n].instrument_id \in AskedStream.symbols \cup Asked.symbols =>
                /\ tape[n].source = AskedStream.stream_id
                /\ tape[n].instrument_id \in AskedStream.symbols
         /\ MustResample(Asked, AskedStream) =>
              \A m, n \in DOMAIN tape :
                tape[m].instrument_id = tape[n].instrument_id /\ Precedes(tape, m, n)
                  => tape[m].event_time < tape[n].event_time
<1>1. /\ Len(strategy.requirements) = 1
      /\ Asked.symbols \cap DOMAIN policy.mapping = {}
      /\ \A e \in ToSet(tape) :
           e.instrument_id \in AskedStream.symbols \cup Asked.symbols =>
             e.source = AskedStream.stream_id /\ e.instrument_id \in AskedStream.symbols
      /\ MustResample(Asked, AskedStream) =>
           \A m, n \in DOMAIN tape :
             tape[m].instrument_id = tape[n].instrument_id /\ Precedes(tape, m, n)
               => tape[m].event_time < tape[n].event_time
  BY DEF AskedAlone, Asked, AskedStream
<1>2. \A n \in DOMAIN tape : tape[n] \in ToSet(tape)
  BY DEF ToSet
<1>3. DOMAIN strategy.requirements = 1 .. Len(strategy.requirements) => Required = {Asked}
  BY <1>1 DEF Required, Asked
<1>4. QED
  BY <1>1, <1>2, <1>3

(* The record's mapping gives a wanted name to its symbol and to no other.  *)
LEMMA MappedTo ==
  ASSUME MustMap(Asked, AskedStream), MappingValid(AskedStream, Asked.symbols),
         Asked.symbols \cap DOMAIN policy.mapping = {}, NEW symbol \in Asked.symbols
  PROVE  LET rho == RelevantMapping(AskedStream, Asked.symbols)
         IN /\ symbol \notin DOMAIN rho
            /\ \A i \in DOMAIN rho :
                 /\ i \in AskedStream.symbols
                 /\ rho[i] = symbol <=> i = SourceSymbol(symbol, AskedStream)
            /\ symbol \notin AskedStream.symbols => SourceSymbol(symbol, AskedStream) \in DOMAIN rho
<1> DEFINE rho == RelevantMapping(AskedStream, Asked.symbols)
           source == SourceSymbol(symbol, AskedStream)
<1>1. DOMAIN rho = {x \in DOMAIN policy.mapping :
                      x \in AskedStream.symbols /\ policy.mapping[x] \in Asked.symbols}
  BY DEF RelevantMapping, Restrict
<1>2. \A x \in DOMAIN rho : rho[x] = policy.mapping[x]
  BY DEF RelevantMapping, Restrict
<1>3. /\ IsInjective(rho) /\ Range(rho) \cap AskedStream.symbols = {}
      /\ Asked.symbols \ AskedStream.symbols \subseteq Range(rho)
  BY DEF MappingValid
<1>4. symbol \notin DOMAIN rho
  BY <1>1
<1> HIDE DEF rho
<1>5. CASE symbol \in AskedStream.symbols
  <2>1. source = symbol
    BY <1>5 DEF SourceSymbol
  <2>2. \A i \in DOMAIN rho : rho[i] \in Range(rho)
    BY DEF Range
  <2>3. \A i \in DOMAIN rho : rho[i] # symbol
    BY <1>3, <1>5, <2>2
  <2> HIDE DEF source
  <2>4. QED
    BY <1>1, <1>4, <1>5, <2>1, <2>3 DEF rho, source
<1>6. CASE symbol \notin AskedStream.symbols
  <2>1. PICK s \in DOMAIN rho : rho[s] = symbol
    BY <1>3, <1>6 DEF Range
  <2>2. /\ s \in AskedStream.symbols /\ s \in DOMAIN policy.mapping
        /\ policy.mapping[s] = symbol
    BY <1>1, <1>2, <2>1
  <2>3. source = CHOOSE x \in AskedStream.symbols :
                    x \in DOMAIN policy.mapping /\ policy.mapping[x] = symbol
    BY <1>6 DEF SourceSymbol
  <2> HIDE DEF source
  <2>4. /\ source \in AskedStream.symbols /\ source \in DOMAIN policy.mapping
        /\ policy.mapping[source] = symbol
    BY <2>2, <2>3
  <2>5. source \in DOMAIN rho /\ rho[source] = symbol
    BY <1>1, <1>2, <2>4
  <2>6. \A i \in DOMAIN rho : rho[i] = symbol => i = source
    BY <1>3, <2>5 DEF IsInjective
  <2>7. QED
    BY <1>1, <1>4, <2>5, <2>6 DEF rho, source
<1>7. QED
  BY <1>5, <1>6

LEMMA HalfwayNamed ==
  ASSUME request \in Requests, AskedAlone, Failing(RequirementChecks(Asked)) = {}
  PROVE  /\ Renames(Halfway, tape)
         /\ \A symbol \in Wanted(Asked, AskedStream) : \A n \in DOMAIN tape :
              Halfway[n].instrument_id = symbol <=> AskedFor(tape[n], symbol)
<1>1. /\ tape \in Seq(Event) /\ DOMAIN tape = 1 .. Len(tape)
      /\ \A i \in DOMAIN policy.mapping : policy.mapping[i] \in DOMAIN InstrumentRank
  <2>1. tape \in Seq(Event)
    BY RequestsAssumption DEF tape
  <2>2. \A i \in DOMAIN policy.mapping : policy.mapping[i] \in DOMAIN InstrumentRank
    BY RequestsAssumption DEF policy
  <2>3. QED
    BY <2>1, <2>2
<1>2. /\ Asked.symbols \cap DOMAIN policy.mapping = {}
      /\ \A n \in DOMAIN tape :
           tape[n].instrument_id \in AskedStream.symbols \cup Asked.symbols =>
             /\ tape[n].source = AskedStream.stream_id
             /\ tape[n].instrument_id \in AskedStream.symbols
  BY AloneIs
<1>3. \A n \in DOMAIN tape : tape[n] \in Event
  BY <1>1
<1>4. CASE ~MustMap(Asked, AskedStream)
  <2>1. Halfway = tape
    BY <1>4 DEF Halfway
  <2>2. Renames(tape, tape)
    BY <1>1, <1>3 DEF Renames, ButForName
  <2>3. Wanted(Asked, AskedStream) \subseteq AskedStream.symbols
    BY <1>4 DEF MustMap, Wanted
  <2>4. \A symbol \in Wanted(Asked, AskedStream) : SourceSymbol(symbol, AskedStream) = symbol
    BY <2>3 DEF SourceSymbol
  <2>5. ASSUME NEW symbol \in Wanted(Asked, AskedStream), NEW n \in DOMAIN tape
        PROVE  tape[n].instrument_id = symbol <=> AskedFor(tape[n], symbol)
    BY <1>2, <2>3, <2>4 DEF AskedFor
  <2>6. QED
    BY <2>1, <2>2, <2>5
<1>5. CASE MustMap(Asked, AskedStream)
  <2> DEFINE rho == RelevantMapping(AskedStream, Asked.symbols)
  <2>1. MappingValid(AskedStream, Asked.symbols)
    BY <1>5, RequirementAccepted DEF AskedStream
  <2>2. Halfway = MapSymbols(tape, rho)
    BY <1>5 DEF Halfway
  <2>3. Asked.symbols # {} /\ Wanted(Asked, AskedStream) = Asked.symbols
    BY <1>5 DEF MustMap, Wanted
  <2>4. \A i \in DOMAIN rho : rho[i] \in DOMAIN InstrumentRank
    BY <1>1 DEF RelevantMapping, Restrict
  <2>5. ASSUME NEW symbol \in Asked.symbols
        PROVE  /\ symbol \notin DOMAIN rho
               /\ \A i \in DOMAIN rho :
                    /\ i \in AskedStream.symbols
                    /\ rho[i] = symbol <=> i = SourceSymbol(symbol, AskedStream)
               /\ symbol \notin AskedStream.symbols
                    => SourceSymbol(symbol, AskedStream) \in DOMAIN rho
               /\ symbol \in AskedStream.symbols
                    => SourceSymbol(symbol, AskedStream) = symbol
    <3>1. symbol \in AskedStream.symbols => SourceSymbol(symbol, AskedStream) = symbol
      BY DEF SourceSymbol
    <3>2. QED
      BY <1>2, <1>5, <2>1, <3>1, MappedTo
  <2> HIDE DEF rho
  <2>6. /\ Halfway \in Seq(Event) /\ Len(Halfway) = Len(tape)
        /\ \A n \in DOMAIN tape :
             /\ ButForName(Halfway[n], tape[n])
             /\ Halfway[n].instrument_id
                  = IF tape[n].instrument_id \in DOMAIN rho
                    THEN rho[tape[n].instrument_id] ELSE tape[n].instrument_id
    BY <1>1, <2>2, <2>4, MapsIs
  <2>7. ASSUME NEW n \in DOMAIN tape
        PROVE  /\ ButForName(Halfway[n], tape[n])
               /\ Halfway[n].instrument_id
                    = IF tape[n].instrument_id \in DOMAIN rho
                      THEN rho[tape[n].instrument_id] ELSE tape[n].instrument_id
    BY <2>6, <2>7
  <2>8. Renames(Halfway, tape)
    BY <1>1, <2>6, <2>7 DEF Renames
  <2>9. ASSUME NEW symbol \in Asked.symbols, NEW n \in DOMAIN tape
        PROVE  Halfway[n].instrument_id = symbol <=> AskedFor(tape[n], symbol)
    <3> DEFINE i == tape[n].instrument_id
               source == SourceSymbol(symbol, AskedStream)
    <3>1. i \in AskedStream.symbols \cup Asked.symbols =>
            tape[n].source = AskedStream.stream_id /\ i \in AskedStream.symbols
      BY <1>2
    <3>2. Halfway[n].instrument_id = IF i \in DOMAIN rho THEN rho[i] ELSE i
      BY <2>7
    <3>3. AskedFor(tape[n], symbol) <=> tape[n].source = AskedStream.stream_id /\ i = source
      BY DEF AskedFor
    <3>4. /\ symbol \notin DOMAIN rho
          /\ i \in DOMAIN rho => i \in AskedStream.symbols /\ (rho[i] = symbol <=> i = source)
          /\ symbol \notin AskedStream.symbols => source \in DOMAIN rho
          /\ symbol \in AskedStream.symbols => source = symbol
      BY <2>5
    <3> HIDE DEF i, source
    <3>5. QED
      BY <3>1, <3>2, <3>3, <3>4
  <2>10. QED
    BY <2>3, <2>8, <2>9
<1>6. QED
  BY <1>4, <1>5

(* The end of the interval of a time is the one multiple of the interval    *)
(* that is at it or less than an interval after it.                         *)
LEMMA EndWithin ==
  ASSUME NEW time \in Nat, NEW interval \in Nat \ {0}, NEW close \in Nat
  PROVE  /\ EndOf(time, interval) % interval = 0
         /\ EndOf(time, interval) <= time + interval
         /\ close % interval = 0 =>
              (close - interval < time /\ time <= close <=> EndOf(time, interval) = close)
<1> DEFINE q == (time - 1) \div interval
           r == (time - 1) % interval
           end == EndOf(time, interval)
<1>1. q \in Int /\ r \in 0 .. interval - 1 /\ time - 1 = interval * q + r
  OBVIOUS
<1>2. end = (q + 1) * interval
  BY DEF EndOf
<1>3. end % interval = 0
  <2>1. interval = interval * 1 + 0 /\ 0 \in 0 .. interval - 1 /\ interval \in Int
    OBVIOUS
  <2>2. interval % interval = 0
    BY <2>1, Divided
  <2>3. QED
    BY <2>2, EndIs
<1> HIDE DEF q, r, end
<1>4. interval * q \in Int /\ end = interval * q + interval
  BY <1>1, <1>2
<1>5. end - interval < time /\ time <= end /\ end <= time + interval
  BY <1>1, <1>4
<1>6. ASSUME close % interval = 0, close - interval < time, time <= close
      PROVE  end = close
  <2> DEFINE a == close \div interval
  <2>1. a \in Int /\ close = interval * a
    BY <1>6
  <2> HIDE DEF a
  <2>2. interval * (a - 1) = close - interval
    BY <2>1
  <2>3. /\ time - 1 = interval * (a - 1) + (time - 1 - (close - interval))
        /\ time - 1 - (close - interval) \in 0 .. interval - 1 /\ time - 1 \in Int /\ a - 1 \in Int
    BY <1>6, <2>1, <2>2
  <2>4. q = a - 1
    BY <2>3, Divided DEF q
  <2>5. QED
    BY <1>2, <2>1, <2>4
<1>7. QED
  BY <1>3, <1>5, <1>6 DEF end

(* What Owed owes, stated for one event.                                    *)
WithinOf(symbol, close, interval) ==
  {e \in ToSet(tape) : /\ AskedFor(e, symbol)
                       /\ close - interval < e.event_time /\ e.event_time <= close}

ClosesOf(symbol, interval) ==
  {close \in 0 .. Max({0} \cup {e.event_time : e \in ToSet(tape)}) + interval :
     close % interval = 0 /\ WithinOf(symbol, close, interval) # {}}

OwedBars(interval) ==
  UNION {{OwedBar(symbol, close, WithinOf(symbol, close, interval)) :
            close \in ClosesOf(symbol, interval)} : symbol \in Wanted(Asked, AskedStream)}

OwedEvents ==
  UNION {{View(symbol, e.event_time, e.available_time, e.payload) :
            e \in {d \in ToSet(tape) : AskedFor(d, symbol)}} :
              symbol \in Wanted(Asked, AskedStream)}

LEMMA OwedIs ==
  Owed(Asked) = IF MustResample(Asked, AskedStream)
                THEN OwedBars(Asked.timeframe.interval) ELSE OwedEvents
<1> DEFINE Raw(symbol) == {e \in ToSet(tape) : /\ e.source = AskedStream.stream_id
                                               /\ e.instrument_id = SourceSymbol(symbol, AskedStream)}
           interval == Asked.timeframe.interval
           Within(symbol, close) ==
             {e \in Raw(symbol) : close - interval < e.event_time /\ e.event_time <= close}
           Closes(symbol) ==
             {close \in 0 .. Max({0} \cup {e.event_time : e \in ToSet(tape)}) + interval :
                close % interval = 0 /\ Within(symbol, close) # {}}
<1>1. \A symbol : Raw(symbol) = {d \in ToSet(tape) : AskedFor(d, symbol)}
  BY DEF AskedFor
<1>2. \A symbol, close : Within(symbol, close) = WithinOf(symbol, close, interval)
  BY DEF WithinOf, AskedFor
<1>3. Owed(Asked) =
        UNION {IF AskedStream.timeframe = Asked.timeframe
               THEN {View(symbol, e.event_time, e.available_time, e.payload) : e \in Raw(symbol)}
               ELSE {OwedBar(symbol, close, Within(symbol, close)) : close \in Closes(symbol)} :
                 symbol \in Wanted(Asked, AskedStream)}
  BY DEF Owed, AskedStream
<1>4. MustResample(Asked, AskedStream) <=> AskedStream.timeframe # Asked.timeframe
  BY DEF MustResample
<1>5. \A symbol : Closes(symbol) = ClosesOf(symbol, interval)
  BY <1>2 DEF ClosesOf
<1> HIDE DEF Raw, Within, Closes, interval
<1>6. CASE ~MustResample(Asked, AskedStream)
  <2>1. Owed(Asked) =
          UNION {{View(symbol, e.event_time, e.available_time, e.payload) : e \in Raw(symbol)} :
                   symbol \in Wanted(Asked, AskedStream)}
    BY <1>3, <1>4, <1>6
  <2>2. Owed(Asked) = OwedEvents
    BY <1>1, <2>1 DEF OwedEvents
  <2>3. QED
    BY <1>6, <2>2
<1>7. CASE MustResample(Asked, AskedStream)
  <2>1. Owed(Asked) =
          UNION {{OwedBar(symbol, close, Within(symbol, close)) : close \in Closes(symbol)} :
                   symbol \in Wanted(Asked, AskedStream)}
    BY <1>3, <1>4, <1>7
  <2>2. Owed(Asked) = OwedBars(interval)
    BY <1>2, <1>5, <2>1 DEF OwedBars
  <2>3. QED
    BY <1>7, <2>2 DEF interval
<1>8. QED
  BY <1>6, <1>7

(* No event of the tape is after the greatest time.                         *)
LEMMA LatestTime ==
  ASSUME tape \in Seq(Event)
  PROVE  LET latest == Max({0} \cup {e.event_time : e \in ToSet(tape)})
         IN latest \in Nat /\ \A n \in DOMAIN tape : tape[n].event_time <= latest
<1> DEFINE N == Len(tape) + 1
           f == [k \in 1 .. N |-> IF k = N THEN 0 ELSE tape[k].event_time]
           S == {0} \cup {e.event_time : e \in ToSet(tape)}
<1>1. /\ Len(tape) \in Nat /\ DOMAIN tape = 1 .. Len(tape)
      /\ \A n \in DOMAIN tape : tape[n].event_time \in Nat
  <2>1. \A n \in DOMAIN tape : tape[n] \in Event
    OBVIOUS
  <2>2. QED
    BY <2>1 DEF Event
<1>2. N \in Nat \ {0} /\ f \in [1 .. N -> Nat] /\ N \in 1 .. N
  BY <1>1
<1>3. /\ f[N] = 0
      /\ \A n \in DOMAIN tape : n \in 1 .. N /\ f[n] = tape[n].event_time
  BY <1>1
<1>4. \A k \in 1 .. N : k = N \/ k \in DOMAIN tape
  BY <1>1
<1> HIDE DEF f, N
<1>5. S = {f[k] : k \in 1 .. N}
  BY <1>2, <1>3, <1>4 DEF ToSet
<1>6. Max(S) \in Nat /\ \A y \in S : y <= Max(S)
  BY <1>2, <1>5, Extremes
<1>7. \A n \in DOMAIN tape : tape[n].event_time \in S
  BY DEF ToSet
<1>8. QED
  BY <1>6, <1>7

(* The positions of one key are those of the bars that close within one     *)
(* interval.                                                                *)
At(tuple, key, interval) == {n \in DOMAIN tuple : Key(tuple[n], interval) = key}

Named(tuple) ==
  /\ Renames(tuple, tape)
  /\ \A symbol \in Wanted(Asked, AskedStream) : \A n \in DOMAIN tape :
       tuple[n].instrument_id = symbol <=> AskedFor(tape[n], symbol)

LEMMA KeyIs ==
  ASSUME NEW tuple, Named(tuple), NEW interval \in Nat \ {0}, NEW n \in DOMAIN tape,
         NEW symbol \in Wanted(Asked, AskedStream), NEW b \in Int, (b + 1) * interval \in Nat,
         (((b + 1) * interval) - 1) \div interval = b, ((b + 1) * interval) % interval = 0
  PROVE  Key(tuple[n], interval) = <<symbol, b>> <=>
           tape[n] \in WithinOf(symbol, (b + 1) * interval, interval)
<1> DEFINE close == (b + 1) * interval
           time == tape[n].event_time
<1>1. /\ tape[n] \in Event /\ tape[n] \in ToSet(tape) /\ tuple[n].event_time = time
  BY RenamesKeeps DEF Named, ToSet
<1>2. time \in Nat
  BY <1>1 DEF Event
<1>3. tuple[n].instrument_id = symbol <=> AskedFor(tape[n], symbol)
  BY DEF Named
<1>4. Key(tuple[n], interval) = <<symbol, b>> <=>
        tuple[n].instrument_id = symbol /\ (time - 1) \div interval = b
  BY <1>1 DEF Key, Bucket
<1>5. (time - 1) \div interval = b <=> EndOf(time, interval) = close
  <2>1. (time - 1) \div interval = b => EndOf(time, interval) = close
    BY DEF EndOf
  <2>2. (EndOf(time, interval) - 1) \div interval = (time - 1) \div interval
    BY <1>2, EndIs
  <2>3. QED
    BY <2>1, <2>2
<1>6. close - interval < time /\ time <= close <=> EndOf(time, interval) = close
  <2>1. close \in Nat /\ close % interval = 0
    OBVIOUS
  <2> HIDE DEF close, time
  <2>2. QED
    BY <1>2, <2>1, EndWithin
<1> HIDE DEF close, time
<1>7. tape[n] \in WithinOf(symbol, close, interval) <=>
        AskedFor(tape[n], symbol) /\ close - interval < time /\ time <= close
  BY <1>1 DEF WithinOf, time
<1>8. QED
  BY <1>3, <1>4, <1>5, <1>6, <1>7 DEF close

LEMMA BarsWithin ==
  ASSUME NEW tuple, Named(tuple), NEW interval \in Nat \ {0}, tape \in Seq(Event),
         NEW symbol \in Wanted(Asked, AskedStream), NEW b, <<symbol, b>> \in Keys(tuple, interval)
  PROVE  LET P == At(tuple, <<symbol, b>>, interval)
             close == (b + 1) * interval
         IN /\ P \in SUBSET (1 .. Len(tape)) /\ P # {} /\ DOMAIN tuple = 1 .. Len(tape)
            /\ b \in Int /\ close \in ClosesOf(symbol, interval)
            /\ {tape[n] : n \in P} = WithinOf(symbol, close, interval)
            /\ \A n \in P : AskedFor(tape[n], symbol) /\ tuple[n].source = AskedStream.stream_id
<1> DEFINE P == At(tuple, <<symbol, b>>, interval)
           close == (b + 1) * interval
           latest == Max({0} \cup {e.event_time : e \in ToSet(tape)})
<1>1. /\ DOMAIN tuple = 1 .. Len(tape) /\ DOMAIN tape = 1 .. Len(tape)
      /\ \A n \in DOMAIN tape : /\ tape[n] \in Event /\ tuple[n].event_time = tape[n].event_time
                                /\ tuple[n].source = tape[n].source
  BY RenamesKeeps DEF Named
<1>2. PICK k \in DOMAIN tuple : Key(tuple[k], interval) = <<symbol, b>>
  BY DEF Keys
<1> DEFINE time == tape[k].event_time
<1>3. time \in Nat /\ tuple[k].event_time = time
  BY <1>1, <1>2 DEF Event
<1>4. b = (time - 1) \div interval
  BY <1>2, <1>3 DEF Key, Bucket
<1>5. b \in Int /\ close = EndOf(time, interval)
  BY <1>3, <1>4, BucketIs DEF EndOf
<1>6. /\ close \in Nat /\ close <= time + interval /\ close % interval = 0
      /\ (close - 1) \div interval = b
  <2>1. /\ EndOf(time, interval) \in Nat
        /\ (EndOf(time, interval) - 1) \div interval = (time - 1) \div interval
    BY <1>3, EndIs
  <2>2. EndOf(time, interval) % interval = 0 /\ EndOf(time, interval) <= time + interval
    BY <1>3, EndWithin
  <2> HIDE DEF time, close
  <2>3. QED
    BY <1>4, <1>5, <2>1, <2>2
<1>7. latest \in Nat /\ time <= latest
  BY <1>1, <1>2, LatestTime
<1>8. \A n \in DOMAIN tape :
        Key(tuple[n], interval) = <<symbol, b>> <=> tape[n] \in WithinOf(symbol, close, interval)
  BY <1>5, <1>6, KeyIs
<1>9. P \subseteq 1 .. Len(tape) /\ k \in P /\ \A n \in P : tape[n] \in WithinOf(symbol, close, interval)
  BY <1>1, <1>2, <1>8 DEF At
<1>10. {tape[n] : n \in P} = WithinOf(symbol, close, interval)
  <2>1. ASSUME NEW e \in WithinOf(symbol, close, interval) PROVE \E n \in P : e = tape[n]
    <3>1. PICK n \in DOMAIN tape : e = tape[n]
      BY DEF WithinOf, ToSet
    <3>2. n \in P
      BY <1>1, <1>8, <2>1, <3>1 DEF At
    <3>3. QED
      BY <3>1, <3>2
  <2>2. QED
    BY <1>9, <2>1
<1>11. close \in ClosesOf(symbol, interval)
  <2>1. close \in 0 .. latest + interval
    <3> HIDE DEF close, latest, time
    <3>1. QED
      BY <1>3, <1>6, <1>7
  <2>2. WithinOf(symbol, close, interval) # {}
    BY <1>9
  <2> HIDE DEF close
  <2>3. QED
    BY <1>6, <2>1, <2>2 DEF ClosesOf
<1>12. \A n \in P : AskedFor(tape[n], symbol) /\ tuple[n].source = AskedStream.stream_id
  <2>1. \A e \in WithinOf(symbol, close, interval) :
           AskedFor(e, symbol) /\ e.source = AskedStream.stream_id
    BY DEF WithinOf, AskedFor
  <2>2. QED
    BY <1>1, <1>9, <2>1
<1>13. QED
  BY <1>1, <1>5, <1>9, <1>10, <1>11, <1>12

(* Every close of an interval with bars of a wanted symbol has a key.       *)
LEMMA ClosesKeyed ==
  ASSUME NEW tuple, Named(tuple), NEW interval \in Nat \ {0}, tape \in Seq(Event),
         NEW symbol \in Wanted(Asked, AskedStream), NEW close \in ClosesOf(symbol, interval)
  PROVE  \E b : <<symbol, b>> \in Keys(tuple, interval) /\ close = (b + 1) * interval
<1>1. PICK n \in DOMAIN tape : tape[n] \in WithinOf(symbol, close, interval)
  BY DEF ClosesOf, WithinOf, ToSet
<1>2. /\ DOMAIN tuple = DOMAIN tape /\ tape[n] \in Event
      /\ tuple[n].event_time = tape[n].event_time
  BY <1>1, RenamesKeeps DEF Named
<1> DEFINE time == tape[n].event_time
           b == (time - 1) \div interval
<1>3. time \in Nat
  BY <1>2 DEF Event
<1>4. AskedFor(tape[n], symbol) /\ close - interval < time /\ time <= close
  BY <1>1 DEF WithinOf
<1>5. close \in Nat /\ close % interval = 0
  <2>1. Max({0} \cup {e.event_time : e \in ToSet(tape)}) \in Nat
    BY LatestTime
  <2>2. QED
    BY <2>1 DEF ClosesOf
<1>6. close = EndOf(time, interval)
  BY <1>3, <1>4, <1>5, EndWithin
<1>7. tuple[n].instrument_id = symbol
  BY <1>1, <1>4 DEF Named
<1>8. Key(tuple[n], interval) = <<symbol, b>>
  BY <1>2, <1>7 DEF Key, Bucket
<1>9. <<symbol, b>> \in Keys(tuple, interval)
  BY <1>1, <1>2, <1>8 DEF Keys
<1>10. QED
  BY <1>6, <1>9 DEF EndOf

(* Merged bars come each time once, and in the order of their times.        *)
Chronological ==
  \A m, n \in DOMAIN tape :
    tape[m].instrument_id = tape[n].instrument_id /\ Precedes(tape, m, n)
      => tape[m].event_time < tape[n].event_time

LEMMA BarOwed ==
  ASSUME NEW tuple, Named(tuple), NEW interval \in Nat \ {0}, tape \in Seq(Event), Chronological,
         NEW symbol \in Wanted(Asked, AskedStream), NEW b, <<symbol, b>> \in Keys(tuple, interval),
         NEW sequence
  PROVE  LET bar == MergedBar(Group(tuple, <<symbol, b>>, interval), <<symbol, b>>, interval,
                              sequence)
             close == (b + 1) * interval
         IN /\ bar.instrument_id = symbol /\ bar.source = AskedStream.stream_id
            /\ close \in ClosesOf(symbol, interval)
            /\ View(bar.instrument_id, bar.event_time, bar.available_time, bar.payload)
                 = OwedBar(symbol, close, WithinOf(symbol, close, interval))
<1> DEFINE key == <<symbol, b>>
           P == At(tuple, key, interval)
           close == (b + 1) * interval
           bar == MergedBar(Group(tuple, key, interval), key, interval, sequence)
<1>1. /\ P \in SUBSET (1 .. Len(tape)) /\ P # {} /\ DOMAIN tuple = 1 .. Len(tape)
      /\ close \in ClosesOf(symbol, interval)
      /\ {tape[n] : n \in P} = WithinOf(symbol, close, interval)
      /\ \A n \in P : AskedFor(tape[n], symbol) /\ tuple[n].source = AskedStream.stream_id
  BY BarsWithin
<1>2. Group(tuple, key, interval) = Ordered(tuple, P)
  BY DEF Group, At
<1>3. Renames(tuple, tape) /\ tuple \in Seq(Event) /\ DOMAIN tape = 1 .. Len(tape)
  BY DEF Named, Renames
<1>4. InTime(tape, P)
  <2>1. \A m, n \in P : tape[m].instrument_id = tape[n].instrument_id
    BY <1>1 DEF AskedFor
  <2> HIDE DEF P
  <2>2. QED
    BY <1>1, <1>3, <2>1 DEF Chronological, InTime
<1>5. key[1] = symbol /\ (key[2] + 1) * interval = close
  OBVIOUS
<1> HIDE DEF P, key, close
<1>6. MadeAsOwed(tuple, tape, P, key, interval, sequence)
  <2>1. P \in SUBSET (1 .. Len(tape)) /\ P # {}
    BY <1>1
  <2>2. QED
    BY <1>3, <1>4, <2>1, MergedOwed
<1>7. View(bar.instrument_id, bar.event_time, bar.available_time, bar.payload)
        = OwedBar(symbol, close, WithinOf(symbol, close, interval))
  BY <1>1, <1>2, <1>5, <1>6 DEF MadeAsOwed
<1>8. Ordered(tuple, P)[1].source = AskedStream.stream_id
  <2>1. IsFiniteSet(P) /\ Cardinality(P) \in Nat
    BY <1>1, <1>3, OrderedIs
  <2>2. Cardinality(P) # 0
    BY <1>1, <2>1, FS_EmptySet
  <2>3. 1 \in 1 .. Cardinality(P)
    BY <2>1, <2>2
  <2>4. PICK n \in P : Ordered(tuple, P)[1] = tuple[n]
    <3>1. P \in SUBSET DOMAIN tuple
      BY <1>1
    <3>2. QED
      BY <1>3, <2>3, <3>1, OrderedAt
  <2>5. QED
    BY <1>1, <2>4
<1>9. bar.instrument_id = symbol /\ bar.source = AskedStream.stream_id
  BY <1>2, <1>5, <1>8 DEF MergedBar
<1>10. QED
  BY <1>1, <1>7, <1>9 DEF key, close

Got(e) == View(e.instrument_id, e.event_time, e.available_time, e.payload)

LEMMA DeliveredIs ==
  \A v : v \in Delivered(Asked) <=>
    \E i \in DOMAIN events :
      /\ events[i].source = AskedStream.stream_id
      /\ events[i].instrument_id \in Wanted(Asked, AskedStream)
      /\ v = Got(events[i])
BY DEF Delivered, AskedStream, ToSet, Got

LEMMA ResampledAsOwed ==
  ASSUME NEW tuple, Named(tuple), NEW interval \in Nat \ {0}, tape \in Seq(Event), Chronological,
         events = Resampled(tuple, interval)
  PROVE  Delivered(Asked) = OwedBars(interval)
<1>1. tuple \in Seq(Event)
  BY DEF Named, Renames
<1>2. PICK key \in [DOMAIN events -> Keys(tuple, interval)] :
        /\ \A k \in Keys(tuple, interval) : \E i \in DOMAIN events : key[i] = k
        /\ \A i \in DOMAIN events :
             events[i] = MergedBar(Group(tuple, key[i], interval), key[i], interval,
                                   events[i].sequence)
  BY <1>1, BarsAre
<1>3. ASSUME NEW v \in Delivered(Asked)
      PROVE  v \in OwedBars(interval)
  <2>1. PICK i \in DOMAIN events : /\ events[i].instrument_id \in Wanted(Asked, AskedStream)
                                   /\ v = Got(events[i])
    BY DeliveredIs
  <2>2. key[i] \in Keys(tuple, interval)
    BY <1>2
  <2>3. PICK symbol, b : key[i] = <<symbol, b>>
    BY <2>2 DEF Keys, Key
  <2>4. events[i] = MergedBar(Group(tuple, <<symbol, b>>, interval), <<symbol, b>>, interval,
                              events[i].sequence)
    BY <1>2, <2>3
  <2>5. symbol \in Wanted(Asked, AskedStream)
    <3>1. events[i].instrument_id = symbol
      BY <2>4 DEF MergedBar
    <3>2. QED
      BY <2>1, <3>1
  <2> DEFINE close == (b + 1) * interval
  <2>6. /\ close \in ClosesOf(symbol, interval)
        /\ Got(events[i]) = OwedBar(symbol, close, WithinOf(symbol, close, interval))
    BY <2>2, <2>3, <2>4, <2>5, BarOwed DEF Got
  <2> HIDE DEF close
  <2>7. QED
    BY <2>1, <2>5, <2>6 DEF OwedBars
<1>4. ASSUME NEW v \in OwedBars(interval)
      PROVE  v \in Delivered(Asked)
  <2>0. PICK symbol \in Wanted(Asked, AskedStream) :
          v \in {OwedBar(symbol, close, WithinOf(symbol, close, interval)) :
                   close \in ClosesOf(symbol, interval)}
    BY <1>4 DEF OwedBars
  <2>1. PICK close \in ClosesOf(symbol, interval) :
          v = OwedBar(symbol, close, WithinOf(symbol, close, interval))
    BY <2>0
  <2>2. PICK b : <<symbol, b>> \in Keys(tuple, interval) /\ close = (b + 1) * interval
    BY <2>1, ClosesKeyed
  <2>3. PICK i \in DOMAIN events : key[i] = <<symbol, b>>
    BY <1>2, <2>2
  <2>4. events[i] = MergedBar(Group(tuple, <<symbol, b>>, interval), <<symbol, b>>, interval,
                              events[i].sequence)
    BY <1>2, <2>3
  <2>5. /\ events[i].instrument_id = symbol /\ events[i].source = AskedStream.stream_id
        /\ Got(events[i]) = OwedBar(symbol, (b + 1) * interval,
                                    WithinOf(symbol, (b + 1) * interval, interval))
    BY <2>2, <2>4, BarOwed DEF Got
  <2>6. v = Got(events[i])
    BY <2>1, <2>2, <2>5
  <2>7. QED
    BY <2>5, <2>6, DeliveredIs
<1>5. QED
  BY <1>3, <1>4

(* What is not resampled is what is owed, event by event.                   *)
LEMMA NamedAsOwed ==
  ASSUME Named(events), tape \in Seq(Event)
  PROVE  Delivered(Asked) = OwedEvents
<1>1. /\ DOMAIN events = DOMAIN tape
      /\ \A n \in DOMAIN tape : /\ events[n].event_time = tape[n].event_time
                                /\ events[n].available_time = tape[n].available_time
                                /\ events[n].payload = tape[n].payload
                                /\ events[n].source = tape[n].source
  BY RenamesKeeps DEF Named
<1>2. \A symbol \in Wanted(Asked, AskedStream) : \A n \in DOMAIN tape :
        events[n].instrument_id = symbol <=> AskedFor(tape[n], symbol)
  BY DEF Named
<1>3. \A v : v \in OwedEvents <=>
        \E symbol \in Wanted(Asked, AskedStream) : \E n \in DOMAIN tape :
          /\ AskedFor(tape[n], symbol)
          /\ v = View(symbol, tape[n].event_time, tape[n].available_time, tape[n].payload)
  BY DEF OwedEvents, ToSet
<1>4. ASSUME NEW v \in Delivered(Asked) PROVE v \in OwedEvents
  <2>1. PICK n \in DOMAIN events : /\ events[n].instrument_id \in Wanted(Asked, AskedStream)
                                   /\ v = Got(events[n])
    BY DeliveredIs
  <2>2. AskedFor(tape[n], events[n].instrument_id)
    BY <1>1, <1>2, <2>1
  <2>3. v = View(events[n].instrument_id, tape[n].event_time, tape[n].available_time,
                 tape[n].payload)
    BY <1>1, <2>1 DEF Got
  <2>4. QED
    BY <1>1, <1>3, <2>1, <2>2, <2>3
<1>5. ASSUME NEW v \in OwedEvents PROVE v \in Delivered(Asked)
  <2>1. PICK symbol \in Wanted(Asked, AskedStream), n \in DOMAIN tape :
          /\ AskedFor(tape[n], symbol)
          /\ v = View(symbol, tape[n].event_time, tape[n].available_time, tape[n].payload)
    BY <1>3
  <2>2. events[n].instrument_id = symbol /\ events[n].source = AskedStream.stream_id
    BY <1>1, <1>2, <2>1 DEF AskedFor
  <2>3. v = Got(events[n])
    BY <1>1, <2>1, <2>2 DEF Got
  <2>4. QED
    BY <1>1, <2>2, <2>3, DeliveredIs
<1>6. QED
  BY <1>4, <1>5

(* The records of the one requirement, and the events after some of them.   *)
Planned ==
  /\ records = RecordsFor(Asked, AskedStream)
  /\ Failing(RequirementChecks(Asked)) = {}

Final ==
  IF MustResample(Asked, AskedStream)
  THEN Resampled(Halfway, Asked.timeframe.interval) ELSE Halfway

SoFar == IF next = 1 THEN tape ELSE IF next <= Len(records) THEN Halfway ELSE Final

LEMMA OneJoined ==
  ASSUME NEW x
  PROVE  <<x>> \o <<>> = <<x>> /\ <<>> \o <<x>> = <<x>>
<1>1. <<x>> \in Seq({x})
  OBVIOUS
<1>2. QED
  BY <1>1

LEMMA TwoJoined ==
  ASSUME NEW x, NEW y
  PROVE  <<x>> \o <<y>> = <<x, y>>
<1> DEFINE s == <<x>> \o <<y>>
<1>1. <<x>> \in Seq({x, y}) /\ <<y>> \in Seq({x, y}) /\ <<x, y>> \in Seq({x, y})
  OBVIOUS
<1>2. s \in Seq({x, y}) /\ Len(s) = 2
  BY <1>1
<1>3. s[1] = x /\ s[2] = y
  BY <1>1
<1> HIDE DEF s
<1>4. s = <<x, y>>
  BY <1>1, <1>2, <1>3
<1>5. QED
  BY <1>4 DEF s

LEMMA PlannedIs ==
  ASSUME Planned
  PROVE  \/ /\ MustMap(Asked, AskedStream) /\ MustResample(Asked, AskedStream)
            /\ records = <<MapRecord(Asked, AskedStream), ResampleRecord(Asked, AskedStream)>>
         \/ /\ MustMap(Asked, AskedStream) /\ ~MustResample(Asked, AskedStream)
            /\ records = <<MapRecord(Asked, AskedStream)>>
         \/ /\ ~MustMap(Asked, AskedStream) /\ MustResample(Asked, AskedStream)
            /\ records = <<ResampleRecord(Asked, AskedStream)>>
         \/ /\ ~MustMap(Asked, AskedStream) /\ ~MustResample(Asked, AskedStream)
            /\ records = <<ExactRecord(AskedStream)>>
<1> DEFINE m == MapRecord(Asked, AskedStream)
           r == ResampleRecord(Asked, AskedStream)
<1>1. /\ <<m>> \o <<r>> = <<m, r>> /\ <<m>> \o <<>> = <<m>> /\ <<>> \o <<r>> = <<r>>
      /\ <<>> \o <<>> = <<>>
  <2>1. <<>> \o <<>> = <<>>
    OBVIOUS
  <2>2. QED
    BY <2>1, OneJoined, TwoJoined
<1>2. <<m, r>> # <<>> /\ <<m>> # <<>> /\ <<r>> # <<>>
  <2> HIDE DEF m, r
  <2>1. QED
    OBVIOUS
<1>3. records = RecordsFor(Asked, AskedStream)
  BY DEF Planned
<1> HIDE DEF m, r
<1>4. CASE MustMap(Asked, AskedStream) /\ MustResample(Asked, AskedStream)
  BY <1>1, <1>2, <1>3, <1>4 DEF RecordsFor, m, r
<1>5. CASE MustMap(Asked, AskedStream) /\ ~MustResample(Asked, AskedStream)
  BY <1>1, <1>2, <1>3, <1>5 DEF RecordsFor, m, r
<1>6. CASE ~MustMap(Asked, AskedStream) /\ MustResample(Asked, AskedStream)
  BY <1>1, <1>2, <1>3, <1>6 DEF RecordsFor, m, r
<1>7. CASE ~MustMap(Asked, AskedStream) /\ ~MustResample(Asked, AskedStream)
  BY <1>1, <1>3, <1>7 DEF RecordsFor
<1>8. QED
  BY <1>4, <1>5, <1>6, <1>7

(* Applying a record leads from the events so far to the next.              *)
LEMMA SoFarStep ==
  ASSUME Planned, next \in DOMAIN records, events = SoFar, next \in Nat \ {0}
  PROVE  /\ Len(records) \in Nat /\ next + 1 <= Len(records) + 1
         /\ Applied(records[next], events)
              = IF next + 1 <= Len(records) THEN Halfway ELSE Final
<1> DEFINE m == MapRecord(Asked, AskedStream)
           r == ResampleRecord(Asked, AskedStream)
           x == ExactRecord(AskedStream)
<1>1. \A tuple : /\ Applied(m, tuple)
                      = MapSymbols(tuple, RelevantMapping(AskedStream, Asked.symbols))
                 /\ Applied(r, tuple) = Resampled(tuple, Asked.timeframe.interval)
                 /\ Applied(x, tuple) = tuple
  BY DEF Applied, MapRecord, ResampleRecord, ExactRecord
<1> HIDE DEF m, r, x
<1>2. CASE /\ MustMap(Asked, AskedStream) /\ MustResample(Asked, AskedStream)
           /\ records = <<m, r>>
  <2>1. Len(records) = 2 /\ DOMAIN records = 1 .. 2 /\ records[1] = m /\ records[2] = r
    BY <1>2
  <2>2. CASE next = 1
    <3>1. events = tape
      BY <2>2 DEF SoFar
    <3>2. Applied(m, tape) = Halfway
      BY <1>1, <1>2 DEF Halfway
    <3>3. QED
      BY <2>1, <2>2, <3>1, <3>2
  <2>3. CASE next = 2
    <3>1. events = Halfway
      BY <2>1, <2>3 DEF SoFar
    <3>2. Applied(r, Halfway) = Final
      BY <1>1, <1>2 DEF Final
    <3>3. QED
      BY <2>1, <2>3, <3>1, <3>2
  <2>4. next = 1 \/ next = 2
    BY <2>1
  <2>5. QED
    BY <2>2, <2>3, <2>4
<1>3. ASSUME Len(records) = 1, DOMAIN records = 1 .. 1, Applied(records[1], tape) = Final
      PROVE  /\ Len(records) \in Nat /\ next + 1 <= Len(records) + 1
             /\ Applied(records[next], events)
                  = IF next + 1 <= Len(records) THEN Halfway ELSE Final
  <2>1. next = 1
    BY <1>3
  <2>2. events = tape
    BY <2>1 DEF SoFar
  <2>3. QED
    BY <1>3, <2>1, <2>2
<1>4. CASE MustMap(Asked, AskedStream) /\ ~MustResample(Asked, AskedStream) /\ records = <<m>>
  <2>1. Len(records) = 1 /\ DOMAIN records = 1 .. 1 /\ records[1] = m
    BY <1>4
  <2>2. Applied(m, tape) = Final
    BY <1>1, <1>4 DEF Halfway, Final
  <2>3. QED
    BY <1>3, <2>1, <2>2
<1>5. CASE ~MustMap(Asked, AskedStream) /\ MustResample(Asked, AskedStream) /\ records = <<r>>
  <2>1. Len(records) = 1 /\ DOMAIN records = 1 .. 1 /\ records[1] = r
    BY <1>5
  <2>2. Applied(r, tape) = Final
    BY <1>1, <1>5 DEF Halfway, Final
  <2>3. QED
    BY <1>3, <2>1, <2>2
<1>6. CASE ~MustMap(Asked, AskedStream) /\ ~MustResample(Asked, AskedStream) /\ records = <<x>>
  <2>1. Len(records) = 1 /\ DOMAIN records = 1 .. 1 /\ records[1] = x
    BY <1>6
  <2>2. Applied(x, tape) = Final
    BY <1>1, <1>6 DEF Halfway, Final
  <2>3. QED
    BY <1>3, <2>1, <2>2
<1>7. QED
  BY <1>2, <1>4, <1>5, <1>6, PlannedIs DEF m, r, x

(* After all records the requirement has what it is owed.                   *)
LEMMA FinalIsOwed ==
  ASSUME request \in Requests, AskedAlone, Failing(RequirementChecks(Asked)) = {},
         events = Final
  PROVE  Delivered(Asked) = Owed(Asked)
<1>1. tape \in Seq(Event)
  BY RequestsAssumption DEF tape
<1>2. Named(Halfway)
  BY HalfwayNamed DEF Named
<1>3. CASE ~MustResample(Asked, AskedStream)
  <2>1. events = Halfway
    BY <1>3 DEF Final
  <2>2. Delivered(Asked) = OwedEvents
    BY <1>1, <1>2, <2>1, NamedAsOwed
  <2>3. QED
    BY <1>3, <2>2, OwedIs
<1>4. CASE MustResample(Asked, AskedStream)
  <2> DEFINE interval == Asked.timeframe.interval
  <2>1. CanResampleStream(AskedStream.timeframe, Asked.timeframe) /\ AskedStream \in Held
    BY <1>4, RequirementAccepted DEF ResampleAllowed, AskedStream
  <2>2. AskedStream.timeframe.interval \in Nat
    <3>1. PICK n \in DOMAIN streams : AskedStream = streams[n]
      BY <2>1 DEF Held
    <3>2. QED
      BY <3>1, RequestsAssumption DEF streams
  <2>3. interval \in Nat
    <3>1. Tuple(strategy.requirements) /\ Len(strategy.requirements) = 1
      BY RequestsAssumption, AloneIs DEF strategy
    <3>2. 1 \in DOMAIN strategy.requirements
      BY <3>1 DEF Tuple
    <3>3. QED
      BY <3>2, RequestsAssumption DEF Asked, strategy
  <2>4. 0 < AskedStream.timeframe.interval /\ AskedStream.timeframe.interval < interval
    BY <2>1 DEF CanResampleStream
  <2>5. interval \in Nat \ {0}
    BY <2>2, <2>3, <2>4
  <2>6. events = Resampled(Halfway, interval)
    BY <1>4 DEF Final
  <2>7. Chronological
    BY <1>4, AloneIs DEF Chronological
  <2> HIDE DEF interval
  <2>8. Delivered(Asked) = OwedBars(interval)
    BY <1>1, <1>2, <2>5, <2>6, <2>7, ResampledAsOwed
  <2>9. QED
    BY <1>4, <2>8, OwedIs DEF interval
<1>5. QED
  BY <1>3, <1>4

AloneInv ==
  AskedAlone =>
    /\ stage = "declaration" => records = <<>>
    /\ stage = "requirement" =>
         /\ events = tape /\ next \in {1, 2}
         /\ next = 1 => records = <<>>
         /\ next = 2 => Planned
    /\ stage \in {"planned", "delivered"} => Planned /\ events = SoFar
    /\ stage = "delivered" => next = Len(records) + 1

LEMMA AloneStep == CompileInv /\ PlanInv /\ NamesInv /\ AloneInv /\ [Next]_vars => AloneInv'
<1> SUFFICES ASSUME CompileInv, PlanInv, NamesInv, AloneInv, [Next]_vars PROVE AloneInv'
  OBVIOUS
<1>1. request \in Requests /\ records \in Seq(PlanRecords) /\ next \in Nat \ {0}
  BY DEF CompileInv, PlanInv
<1>2. request' = request
  BY DEF Next, RefuseDeclaration, AcceptDeclaration, RefuseRequirement, AcceptRequirement,
         RefuseSandbox, Refuse, Plan, Apply, ApplyFails, Deliver, Ended, vars
<1>3. /\ tape' = tape /\ Asked' = Asked /\ AskedStream' = AskedStream
      /\ AskedAlone' <=> AskedAlone
  <2>1. tape' = tape /\ Asked' = Asked /\ strategy' = strategy /\ policy' = policy
    BY <1>2 DEF tape, Asked, strategy, policy
  <2>2. AskedStream' = AskedStream
    BY <1>2 DEF AskedStream, Asked, strategy, FindStream, Streams, streams
  <2>3. AskedAlone' <=> AskedAlone
    BY <1>2 DEF AskedAlone, tape, strategy, policy, FindStream, Streams, streams
  <2>4. QED
    BY <2>1, <2>2, <2>3
<1> SUFFICES ASSUME AskedAlone
             PROVE  /\ stage' = "declaration" => records' = <<>>
                    /\ stage' = "requirement" =>
                         /\ events' = tape' /\ next' \in {1, 2}
                         /\ next' = 1 => records' = <<>>
                         /\ next' = 2 => Planned'
                    /\ stage' \in {"planned", "delivered"} => Planned' /\ events' = SoFar'
                    /\ stage' = "delivered" => next' = Len(records') + 1
  BY <1>3 DEF AloneInv
<1>4. /\ Halfway' = Halfway /\ Final' = Final
      /\ RecordsFor(Asked, AskedStream)' = RecordsFor(Asked, AskedStream)
      /\ (Failing(RequirementChecks(Asked)) = {})' <=> Failing(RequirementChecks(Asked)) = {}
  <2>1. policy' = policy /\ strategy' = strategy /\ streams' = streams /\ engine' = engine
    BY <1>2 DEF policy, strategy, streams, engine
  <2>2. RelevantMapping(AskedStream, Asked.symbols)' = RelevantMapping(AskedStream, Asked.symbols)
    BY <1>3, <2>1 DEF RelevantMapping
  <2>3. Halfway' = Halfway
    BY <1>3, <2>2 DEF Halfway, MustMap
  <2>4. Final' = Final
    BY <1>3, <2>3 DEF Final, MustResample
  <2>5. RecordsFor(Asked, AskedStream)' = RecordsFor(Asked, AskedStream)
    BY <1>3, <2>2 DEF RecordsFor, MapRecord, ResampleRecord, ExactRecord, MustMap, MustResample
  <2>6. (Failing(RequirementChecks(Asked)) = {})' <=> Failing(RequirementChecks(Asked)) = {}
    BY <1>3, <2>1 DEF Failing, RequirementChecks, Streams, FindStream, MustMap, MustResample,
                      MappingValid, RelevantMapping, ResampleAllowed, CanResampleStream, Check
  <2>7. QED
    BY <2>3, <2>4, <2>5, <2>6
<1>5. records' = records => (Planned' <=> Planned)
  BY <1>4 DEF Planned
<1>6. Len(strategy.requirements) = 1
  BY AloneIs
<1>7. CASE RefuseDeclaration \/ RefuseRequirement \/ RefuseSandbox
  BY <1>7 DEF RefuseDeclaration, RefuseRequirement, RefuseSandbox, Refuse
<1>8. CASE AcceptDeclaration
  <2>1. /\ stage = "declaration" /\ stage' = "requirement"
        /\ next' = next /\ records' = records /\ events' = events
    BY <1>8 DEF AcceptDeclaration
  <2>2. next = 1 /\ records = <<>> /\ events = tape
    BY <2>1 DEF CompileInv, AloneInv, NamesInv
  <2>3. QED
    BY <1>3, <2>1, <2>2
<1>9. CASE AcceptRequirement
  <2>1. /\ stage = "requirement" /\ ~AllCompiled /\ stage' = stage /\ events' = events
        /\ Failing(RequirementChecks(Current)) = {} /\ next' = next + 1
        /\ records' = records \o RecordsFor(Current, FindStream(Current.stream_id))
    BY <1>9 DEF AcceptRequirement
  <2>2. /\ next \in {1, 2} /\ events = tape
        /\ next = 1 => records = <<>>
    BY <2>1 DEF AloneInv
  <2>3. next = 1
    BY <1>6, <2>1, <2>2 DEF AllCompiled
  <2>4. Current = Asked /\ FindStream(Current.stream_id) = AskedStream
    BY <2>3 DEF Current, Asked, AskedStream
  <2>5. Failing(RequirementChecks(Asked)) = {}
    BY <2>1, <2>4
  <2>6. records' = RecordsFor(Asked, AskedStream)
    <3>1. RecordsFor(Asked, AskedStream) \in Seq(PlanRecords)
      <4>1. DOMAIN strategy.requirements = 1 .. Len(strategy.requirements)
        BY <1>1, RequestsAssumption DEF strategy, Tuple
      <4>2. Asked \in Required
        BY <4>1, AloneIs
      <4>3. QED
        BY <1>1, <2>5, <4>2, RecordsAdded DEF AskedStream
    <3>2. <<>> \o RecordsFor(Asked, AskedStream) = RecordsFor(Asked, AskedStream)
      BY <3>1
    <3>3. QED
      BY <2>1, <2>2, <2>3, <2>4, <3>2
  <2>7. Planned'
    BY <1>4, <2>5, <2>6 DEF Planned
  <2>8. QED
    BY <1>3, <2>1, <2>2, <2>3, <2>7
<1>10. CASE Plan
  <2>1. /\ stage = "requirement" /\ AllCompiled /\ stage' = "planned" /\ next' = 1
        /\ records' = records /\ events' = events
    BY <1>10 DEF Plan
  <2>2. next \in {1, 2} /\ events = tape /\ (next = 2 => Planned)
    BY <2>1 DEF AloneInv
  <2>3. next = 2
    BY <1>6, <2>1, <2>2 DEF AllCompiled
  <2>4. events' = SoFar'
    BY <1>3, <2>1, <2>2 DEF SoFar
  <2>5. QED
    BY <1>5, <2>1, <2>2, <2>3, <2>4
<1>11. CASE Apply
  <2>1. /\ stage = "planned" /\ next \in DOMAIN records /\ stage' = stage
        /\ events' = Applied(records[next], events) /\ next' = next + 1 /\ records' = records
    BY <1>11 DEF Apply
  <2>2. Planned /\ events = SoFar
    BY <2>1 DEF AloneInv
  <2>3. events' = IF next + 1 <= Len(records) THEN Halfway ELSE Final
    BY <1>1, <2>1, <2>2, SoFarStep
  <2>4. next + 1 # 1
    BY <1>1
  <2>5. events' = SoFar'
    BY <1>4, <2>1, <2>3, <2>4 DEF SoFar
  <2>6. QED
    BY <1>5, <2>1, <2>2, <2>5
<1>12. CASE ApplyFails
  <2>1. stage' = "failed"
    BY <1>12 DEF ApplyFails
  <2>2. QED
    BY <2>1
<1>13. CASE Deliver
  <2>1. /\ stage = "planned" /\ next \notin DOMAIN records /\ stage' = "delivered"
        /\ next' = next /\ records' = records /\ events' = events
    BY <1>13 DEF Deliver
  <2>2. Planned /\ events = SoFar
    BY <2>1 DEF AloneInv
  <2>3. next = Len(records) + 1
    <3>1. DOMAIN records = 1 .. Len(records) /\ Len(records) \in Nat
      BY <1>1
    <3>2. next <= Len(records) + 1
      BY <2>1 DEF PlanInv
    <3>3. QED
      BY <1>1, <2>1, <3>1, <3>2
  <2>4. SoFar' = SoFar
    BY <1>3, <1>4, <2>1 DEF SoFar
  <2>5. QED
    BY <1>5, <2>1, <2>2, <2>3, <2>4
<1>14. CASE UNCHANGED vars
  <2>1. /\ stage' = stage /\ next' = next /\ records' = records /\ events' = events
    BY <1>14 DEF vars
  <2>2. SoFar' = SoFar
    BY <1>3, <1>4, <2>1 DEF SoFar
  <2>3. QED
    BY <1>3, <1>5, <2>1, <2>2 DEF AloneInv
<1>15. QED
  BY <1>7, <1>8, <1>9, <1>10, <1>11, <1>12, <1>13, <1>14 DEF Next, Ended

(* A requirement that shares its symbols with no other gets exactly what it *)
(* is owed: under the wanted names the events of the symbols they stand     *)
(* for, and for every closed interval with bars the one bar they make, with *)
(* the first open, the last close, the extremes and the total volume        *)
(* (compile_run, compiler.py:115-371; compatibility.py:11-95).             *)
THEOREM DeliversWhatIsOwed == Spec => [](AskedAlone => RequirementsSatisfied)
<1>1. CompileInv /\ PlanInv /\ AloneInv => (AskedAlone => RequirementsSatisfied)
  <2> SUFFICES ASSUME CompileInv, PlanInv, AloneInv, AskedAlone, stage = "delivered",
                      NEW n \in DOMAIN strategy.requirements
               PROVE  Delivered(strategy.requirements[n]) = Owed(strategy.requirements[n])
    BY DEF RequirementsSatisfied
  <2>1. Planned /\ events = SoFar /\ next = Len(records) + 1
    BY DEF AloneInv
  <2>2. Len(records) = 1 \/ Len(records) = 2
    BY <2>1, PlannedIs
  <2>3. events = Final
    <3>1. next # 1 /\ ~(next <= Len(records))
      BY <2>1, <2>2
    <3>2. QED
      BY <2>1, <3>1 DEF SoFar
  <2>4. request \in Requests
    BY DEF CompileInv
  <2>5. Delivered(Asked) = Owed(Asked)
    BY <2>1, <2>3, <2>4, FinalIsOwed DEF Planned
  <2>6. n = 1
    <3>1. Tuple(strategy.requirements) /\ Len(strategy.requirements) = 1
      BY <2>4, RequestsAssumption, AloneIs DEF strategy
    <3>2. QED
      BY <3>1 DEF Tuple
  <2>7. QED
    BY <2>5, <2>6 DEF Asked
<1>2. Init => NamesInv /\ AloneInv
  <2> SUFFICES ASSUME Init PROVE NamesInv /\ AloneInv
    OBVIOUS
  <2>1. request \in Requests /\ events = tape
    BY DEF Init, tape
  <2>2. NamesInv
    BY <2>1, ToldOfTape DEF NamesInv
  <2>3. AloneInv
    BY DEF Init, AloneInv
  <2>4. QED
    BY <2>2, <2>3
<1>3. CompileInv /\ PlanInv /\ NamesInv /\ AloneInv /\ [Next]_vars => AloneInv'
  BY AloneStep
<1>4. CompileInv /\ PlanInv /\ NamesInv /\ [Next]_vars => NamesInv'
  BY NamesStep
<1>5. QED
  BY <1>1, <1>2, <1>3, <1>4, PlanInvariant, PTL DEF Spec
=============================================================================
