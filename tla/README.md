# StrategyAdapter in TLA+

StrategyAdapter runs trading strategies against backtest engines. A strategy,
a dataset, an engine and a run policy are declared in manifests; a compiler
checks them against each other and fixes an execution plan; an orchestrator
takes the strategy through its lifecycle (training, artifact, inference) and an
engine feeds it market events, executes what it decides and writes a report
from which evidence bundles are made and verified.

These modules model that system from its Python code under `src/psrc`. TLC
checks them on small instances; TLAPS proves the theorems for every instance.

## 1. The system

| Component | State | Operations | Hard parts |
|---|---|---|---|
| Reference engine (`adapters/reference.py`) | cash, positions, average prices, realized profit, marks, pending orders, fills, order events | `run`: one pass over the events, strategy callbacks in between | which event an order executes on, several orders at once, failures in the middle |
| Domain models (`domain/`) | none | validators of events, actions, account | the conditions the engine relies on |
| Lifecycle and orchestrator (`runtime/lifecycle.py`, `orchestrator.py`) | lifecycle state and history | `run_rule`, `run_trainable`, `fail` | which failure is reported at which stage, failures after the end |
| Artifact store (`runtime/artifacts.py`) | one directory per artifact: payload and manifest | `save_bytes`, `load_bytes` | crashes and concurrent saves between the steps of a save, damaged files |
| Compiler and compatibility (`contract/`) | the execution plan | `compile_run`, `apply_compatibility_plan` | order of refusals, symbol maps and resampling over several streams |
| Package loader (`runtime/package.py`, `source_evidence.py`) | files of a package | `load_strategy`, evidence of its source | files that change between check and import |
| Native adapters (`adapters/backtrader.py`, `nautilus.py`) | bridge state (pending target, native orders) | callbacks of the native engines | semantics that differ from the reference engine |
| Bundles and verifier (`runtime/report.py`, `evidence/`) | files of a run bundle | write, rerun, verify | files written one by one, stale generations |
| Sandbox (`sandbox/`) | container process | `execute`, attestation, static scan | timeout of the client only |
| Command line (`cli.py`) | none of its own | `run`, `sandbox run`, `demo all` and others | several packages in one command, commands after one another on the same directories |
| Strategies (`strategies/`, `examples/`) | windows, counters, models | `on_event`, `train`, `load` | their own orders against the engine's answers |
| Authoring audit | none | one comparison of two documents | none |

How they interact: the CLI loads a package, calls the compiler with the four
manifests and hands the plan to the orchestrator. The orchestrator transforms
the events as the plan says, trains and reloads through the artifact store
when the strategy is trainable, and calls `engine.run`. The engine calls the
strategy (`on_start`, `on_event` with a snapshot, `on_finish`) and is the only
one to change the account. Errors travel up as `ContractViolation`. Everything
in one process runs in one thread; concurrency appears where several processes
share a directory (artifacts, bundles, containers).

What makes each part correct:

* Engine: an order executes at the next event that allows it and at no other,
  ends once and is reported, on the terms last agreed; the money adds up; limits
  hold; a run ends.
* Lifecycle: no inference on a trained strategy before its artifact has been
  saved and reloaded; every failure ends in FAILED with the code of its stage.
* Artifact store: a load returns exactly what a save of that manifest stored, or
  fails; an interrupted save is never taken for a finished one.
* Compiler and compatibility: an accepted plan covers every requirement; a
  transformation keeps the order and shows nothing before it was available.
* Loader and verifier: what was imported is what was hashed, and what the
  verifier accepts is what the package is now.
* Strategies: their view of their own orders agrees with the engine's, so nothing they
  return is refused; what they meant to hold is what they hold.
* Native adapters: same decisions, same positions as the reference engine, where
  both can express them.
* Bundles: a bundle that verifies comes from one run; a failed or interrupted run
  leaves nothing that passes for a finished one, and every sandbox run returns.

The list of hazards, each at its line with the properties that cover it, is in
`PROJECT.json`.

## 2. Modules

| Module | What it is |
|---|---|
| `Market` | events, payloads and their validators; the mark, the market price and the limit price the engine derives from an event |
| `ReferenceEngine` | `ReferenceEngine.run` as a state machine |
| `EngineProperties` | the properties of that state machine |
| `OrderLedger` | the abstract specification: what the engine promises about orders |
| `Rational`, `EngineAccounting` | the same engine with average prices and realized profit, and the properties about money |
| `Strategies` | the bundled strategies as the strategy of that engine, and what the two owe each other |
| `ReferenceEngine_proofs` | type correctness and the lemmas about every handler; the four moves on the order book; identifiers and ends, the refinement of `OrderLedger`, when and on what terms orders fill, limits and targets, proved |
| `SumTheorems` | lemmas about sums over finite sets, for the money and for merged bars |
| `EngineAccounting_proofs` | exact fractions, and that the money adds up, proved |
| `Strategies_proofs` | the books under the bundled strategies, and that these and the engine fit one another, proved |
| `ArtifactStore` | `save_bytes` and `load_bytes`, one system call per step, over a shared disk |
| `ArtifactRegistry` | the abstract specification: what the store promises, without files |
| `Orchestrator` | `run_rule` and `run_trainable` over the lifecycle and the store |
| `Orchestrator_proofs` | types and the three safety properties of the store; the five properties of the runs and the refinement of `ArtifactRegistry`, proved |
| `Compatibility` | `symbol.map.v1` and `bar.resample.v1` as operators on tuples of events |
| `Compiler` | `compile_run` check by check, and the plan applied to the events of the dataset |
| `CompilerProperties` | what an accepted plan owes its requirements |
| `CompilerProperties_proofs` | refusals, types, order of delivery, declared losses, causality, whole data and what a requirement is owed, proved |
| `NativeAdapters` | the Backtrader and Nautilus bridges beside the reference engine, and where they agree |
| `NativeAdapters_proofs` | types, positions, fills and snapshots of the three engines, proved |
| `RunEvidence` | `run`, `sandbox run` and `demo all` over packages, evidence directories, containers and the verifier |
| `EvidenceProperties` | what evidence on disk may be relied upon for |
| `RunEvidence_proofs` | types of the commands and files; accepted evidence is of the current source, and of one run, proved |
| `MCReferenceEngine`, `MCEngineAccounting` | tapes, actions and sessions of the small instances |
| `MCArtifactStore`, `MCOrchestrator` | requests and foreign manifests of the small instances |
| `MCCompiler` | the requests of the small instances |
| `MCNativeAdapters`, `MCRunEvidence` | tapes and targets; packages and commands |

### ReferenceEngine against the code

The code is one function, so the model splits it at the points where something
can be observed or can go wrong: `phase` says where the program is.

| Phase | Code | Actions |
|---|---|---|
| `validate` | `_validate_events`, lines 571-597 | `RejectEmptyTape`, `RejectDisorder`, `Start` |
| `loop` | top of the event loop, 157-168; its end, 291 | `BeginEvent`, `Finish` |
| `settle` | `_settle_pending`, 351-421, one step per pending order | `SettleKept`, `SettleSatisfied`, `SettleFilled`, `EndSettlement` |
| `value` | `_snapshot`, 629-672, one step per position | `ValuePosition`, `TakeSnapshot` |
| `act` | the loop over the returned actions, 190-289 | `Handle...` and `Reject...`, one per branch; `EndEvent` |
| `finish` | 291-349 | `ExpireOrder`, `Report` |
| `succeeded`, `failed` | return and raise | `Ended` |

State. `pending` (a list in the code) is a function from acceptance numbers to
orders: orders are only appended, a replacement keeps its place, and removals
keep the order of the others, so the list is the function in ascending order.
`quantities` and `marks` are total functions with 0 where the dict has no key
(a mark is positive once set, and a position that was never opened is worth
nothing either way). `order_events` records the acceptance number and the terms
of the order besides what the code records; nothing in the engine reads them.
Snapshots but the last are not kept; the last carries cash and equity, the two
fields the engine reads back.

The strategy is the environment. After each event it returns any tuple of at
most `MaxActions` members of `Actions`; the tuple is chosen action by action,
which gives the same runs, because a strategy sees nothing between its actions.
It may also raise in any callback (`StrategyRaises`).

Money. A price of an event is a whole number of ticks, a quantity a whole number
of lots (the code rounds a weight's quantity to 0.000001, half to even, and so
does `WeightTarget` to a lot). Marks and fill prices are kept in 1/(2 SlipDen)
of a tick and cash in a further 1/FeeDen, so midpoints, slippage and fees are
exact, as they are in `Decimal` below its 28 digits. Rounding at the 28th digit
is not modelled. Slippage is below 100%: above, the code would compute a price
that its own `Fill` model refuses.

Left out: identifiers of events and fills, reason codes, logs, times of day, L2
depth beyond the best level (an L2 snapshot is read like an L1 quote), the stop
price of the stop orders that the engine refuses, and what the report repeats.

Operators named `Slip...` are not part of the specification: each states one way
the operator after it could have been coded wrongly. `PROJECT.json` pairs each
with the property that fails when it takes the operator's place.

### EngineAccounting

`_update_position` runs inside the fill; `BooksNext` is therefore `SettleFilled`
conjoined with the update of `average_prices` and `realized_pnl`, or any other
step of the engine with these unchanged. Averages are fractions in lowest terms
(`Rational`). `BooksSpec` is this engine under any strategy; `Strategies` adds the
bundled ones.

### Strategies against the code

Here the strategy is no longer the environment. `strategy` names one of the
eighteen bundled strategies, or `any`, which is the environment as before. A bundled
strategy is called when the engine has valued its positions: `OnEvent` takes the
snapshot and, in the same step as the code's `on_event`, sets `response` (the tuple
returned) and `memory` (what the strategy keeps). `Follow` hands the returned actions
to the engine's own handlers one by one, and `AllFollowed` ends the event. A trained
strategy may raise instead of answering (`ModelRaises`): it requires its model, and
`supervised.py:282` can leave the range of `math.exp`.

| Code | Model |
|---|---|
| the deques of `DonchianBreakoutStrategy`, `SmaCrossStrategy`, `PairsZScoreStrategy` | `memory.window` |
| `self.latest`, `self.current` | `memory.latest` |
| `self.counter`, `self.sent`, `self.initialized` | `memory.counter` |
| `on_event` of each strategy | one operator each, from `Donchian` to `CrossSectionalRanker`: the set of pairs of actions and new memory it can give |
| `make_manifest` and the class attributes `manifest` | `Manifests` |

Rules on bars are computed exactly (a z-score is compared as squares, without the
division and the root). A probability, score or policy of a trained strategy, the
sizes of a book and the gap to its second level are not modelled; the strategy may
answer with every target that some value of these gives. The maker's quotes ask the
snapshot which of its orders stand, as the code does. Scores of one batch are
independent of an earlier batch, and a policy of its own earlier answers: a superset
of what one trained artifact does. An L2 book is read like a quote. `on_finish` does
nothing in any of them.

### OrderLedger and the refinement

`OrderLedger` knows a stage, the number of accepted orders, the open ones and
why each closed order closed. An order opens once, closes once, expires only
after trading has stopped; a reported run leaves none open; an aborted run
changes nothing. `EngineProperties!Ledger` maps the engine to it: `open` is the
domain of `pending`, `outcome` is read off the terminal order events, `stage`
off the phase. Settlement, cancels and expiry are ledger steps that close one
order; replacements, marks, snapshots and rejected actions stutter.

### ArtifactStore against the code

The disk is `directories` and `files`, a function from (directory, name) to the
content. A process is in one call at a time, and `pc` names its next system call:

| Code (`runtime/artifacts.py`) | Steps |
|---|---|
| `save_bytes`: component checks, existence test | `CallSave`, `FindDirectory` |
| the branch for a directory that is there | `RefuseReuse`, `Reuse`, then the steps of `load_bytes` |
| `mkdir(exist_ok=False)` | `CreateDirectory` |
| writing payload and manifest | `OpenPayload`, `WritePayload`, `OpenManifest`, `WriteManifest`, or `WriteFails` |
| `load_bytes` | `CallLoad`, `CheckDirectory`, `CheckFile`, `ReadFailed`, `ReadPayload` |

`write_bytes` opens the file, which empties it, and then fills it; in between the
content is `Torn`. A process may end at any point (`Restart`), which leaves the
disk as it is, and up to `MaxDamage` files are overwritten or removed from outside
(`Damage`). A file is read in one step: a payload is at most a few pages, and a
file that is being written reads as `Torn`. Digests are injective functions.
`provenance` stands for the fields the code compares as they are; a manifest has
one file, as every manifest `save_bytes` makes. A logical name may be that of the
manifest, which nothing refuses; the two files are then one.

`Orchestrator` extends the store. `todo` is the next statement of a run,
`history` is `lifecycle.history`. Every call of `lifecycle.transition` goes through
the table `_ALLOWED` (`Transition`), every exception through `fail` and the code
for its stage (`Raise`, `ExceptionCode`), in the order of the code: the stage is
read before the lifecycle is failed. `train` and `load` are those of the bundled
trainable strategies: `train` ends in one `save_bytes`, and `load` in one
`load_bytes` with the manifest that was returned. The bundled ones name their files
`model.json` and `policy.json` (`TrainingsAssumption`). Model fitting yields any of
`Requests` or fails; engine and transformation end in any way they can. A process
runs one strategy after another and may crash at any statement (`CrashRun`).

`ArtifactRegistry` knows published artifacts, what each process keeps and what it
read. Publication happens once per identifier and is final. `Orchestrator!Registry`
maps the store to it: an artifact is published when its manifest is written. With
no damage a step of the disk is a publication or a stutter; after damage the
registry promises nothing.

### Compiler and Compatibility against the code

A behaviour of `Compiler` is one call of `compile_run` and, if it accepts, one
transformation of the dataset as `run_rule` and `run_trainable` make it.

| Code | Actions |
|---|---|
| `compiler.py`, versions to action space | `RefuseDeclaration`, `AcceptDeclaration` |
| the loop over `data_requirements` | `RefuseRequirement`, `AcceptRequirement`, one step per requirement |
| sandbox mode of the engine, the plan | `RefuseSandbox`, `Plan` |
| `apply_compatibility_plan` | `Apply` or `ApplyFails` per record, then `Deliver` |

The checks of a stage are a sequence; the least failing index gives the error
code, which is the code's order of `raise` statements. `Compatibility` holds the
two transformations as operators on the whole tuple, because the code applies
each record to all events. `resample_bars` groups by instrument and by
`(time - 1) \div interval` (`Bucket`), numbers the groups by instrument and
interval, and sorts what it made by availability (`Resampled`).

Times are whole seconds from the epoch of the alignment. Versions are their major
numbers, support levels and sandbox modes their ranks. Timezone, calendar and
alignment of a timeframe are one field, compared as one. An interval has its length
and its spelling, because `compile_run` compares spellings and `resample_bars` computes
with lengths; all bars of a tape are dated to whole seconds, so the fractions that
`int(event_time.timestamp())` cuts off do not occur. Identifiers are values with a
length (`InstrumentLength`, `source_length`): every record of a plan puts a prefix
before the source, a merged bar is named `resampled:<instrument>:<bucket>`, and what has
more than 128 characters is refused (`IdentifiersFit`). Receive times and hashes are
left out.

The properties restate the contract independently: `Fit` has no order of checks
and no records, and `Owed` builds a requirement's events from the dataset's own,
with interval ends enumerated instead of computed.

### NativeAdapters against the code

The bridges subclass a strategy of a native engine; the engines are external and
modelled by how the bridges use them. The three runs share the tape and the
decisions and step bar by bar:

| Code | Operators and actions |
|---|---|
| validation of the tape in both adapters | `RejectTape`, `Start` |
| Backtrader `notify_order` | `NotifyOrder`, `Executed`, `Brokered` in `BeginBar` |
| Backtrader `next` | `Ordered`, `OrderTargetSize` in `HandleTarget` |
| `float(...)`, `Decimal(str(...))` | `Double`, `Printed` |
| Nautilus `on_bar`, `make_qty` | `Submitted`, `MakeQty`, `NautilusRaises` |
| Nautilus `on_order_filled` | `Filled` in `EndBar`, whole or in two parts |
| `reference.py` `_settle_pending` for targets | `Settled` |
| the comparison of fills in `evidence/adapters.py` | `FillShapesAgree` |

Backtrader executes a submitted order at the next bar, Nautilus after the callback
that submitted it; either broker may refuse an order, and the bridges have no
handler for a refusal. Prices and cash are left out: the fill prices of the
engines differ by construction and the code does not compare them.

Quantities are signed whole numbers of a unit as fine as needed, of which a lot has
`LotSize`, so whole and broken lots both occur. The Backtrader bridge converts to
doubles and back: `Doubles` are the quantities that are doubles, `Double` rounds to the
nearest of them (a tie may go either way), and `Printed` is the decimal that `str`
makes of one, which need not be the double itself. A target is rounded when it is
decided, its difference to the position when it is ordered, the new position when the
order executes; the fill and the snapshot show the printed forms. With targets 1.1 and
then 0.1 the position is 0.10000000000000009, and asking for 0.1 again trades again.
`rounded` is history: it remembers that one of these was not exact. Overflow to infinity
is left out, and that the executed size is the size of the order is how the bridge uses
it. Nautilus computes with decimals of its own precision, which `MakeQty` rounds to; its
way through a float beyond 2^53 is left out.

### RunEvidence against the code

A command is a process that goes through the steps in the order of the code:

| `step` | Code | Actions |
|---|---|---|
| `discover` | `discover_strategy_packages`, `load_strategy_manifest`, the source evidence of every target | `Discover`, `RefuseStart` |
| `dataset`, `events` | `_load_package_inputs`, `compile_run` | `ReadDataset`, `ReadEvents` |
| `load`, `import` | `load_strategy`: second evidence, comparison, scan, `exec_module` | `Load`, `Import` |
| `execute` | `run_rule` or `run_trainable` | `Execute` |
| `open`, `close` | `_write_json` and its siblings, a file group at a time | `OpenFile`, `CloseFile`, `BundleMismatch` |
| `summary` | `summary.json` of `demo all` | `WriteSummary` |
| | `DockerSandbox.execute` | `HostReturns`, `HostTimeout` |

`Start` is the operator, who starts a command when the one before has returned;
the only overlap is a container whose client timed out. `Crash` kills a process
between any two steps, and `Edit` writes one part of one package at any time, which
also stands for `psrc package export`. `Verified` is what `verify_acceptance` reads
of one package, `Accepted` what it reads of all of them. The events of a package are
compared with its dataset manifest only if that declares one stream (`cli.py:246`);
`OneStream` says of which contents of a manifest this is so, and `Compared` asks it.

State. `files` is a function from package and file group to absent, open, torn or
whole, with the run that wrote it and what that run read. The groups are those the
verifier or a crash can tell apart: `report.json`; the records and the first HTML;
the manifests, events and code evidence; `bundle.json`. `Verified` asks the whole group
of the code evidence to be whole, although the verifier parses that one file of it; the
`report.html` that is written once more after `bundle.json` (`report.py:416`) is left
out, as nothing reads it. A second process that opens
a file another has open leaves it torn or whole. A part of a package is one of two
contents, and a digest is its content. The memory of a process is forgotten when it
ends. Discovery is one step although the code hashes one package after the other,
and the error codes of a failed process are one outcome, because nothing reads them.

## 3. Runs

| Run | Instance | Shows |
|---|---|---|
| `engine_orders` | 2 instruments, 6 tapes (2 of 3 that validation refuses for different reasons, 3 of 3 events), 8 actions, 2 actions per event, maximum order quantity 2 | types, unique live identifiers, exactly one end per order, next-event execution in both directions (`NothingMissed`, `FillsAfterDecision`), terms honoured after replacement, refinement of the ledger |
| `engine_targets` | 3 tapes, targets by quantity and weight on two instruments, limit 2, fair | position within the limit, position is the newest settled target, every run ends |
| `engine_accounting` | any 2 of 5 actions per event on 2 tapes of 4 events with different prices; each bundled strategy on a tape of the kind it reads (5 to 12 events) | the equity identity, averages between fill prices, cash and positions explained by the fills; the bundled strategies and the engine fit one another |
| `engine_duplicate_id` | the strategy may use an identifier `order:2` | violation: two live orders with one identifier |
| `store` | 2 processes, one identifier requested with two payloads and two provenances, one payload named `manifest.json`, a path as identifier, four foreign manifests, one damaged file | a load returns what was saved; a manifest marks a whole artifact; what was saved stays loadable |
| `orchestrator` | 2 processes on one store, three trainings named by content (two of one payload), crashes, one damaged file | legal transitions, inference only on what this run trained and reloaded, codes that tell the stage, reported artifacts in the store, refinement of the registry |
| `store_resave` | 1 process, one request, no damage, a crash | violation: the identical save is refused after an interrupted one |
| `compiler` | every combination of eight declared values that may be refused; one stream of bars or quotes converted to every timeframe with every mapping; two streams converted alike; names so long that a merged bar's identifier or source does not fit | refused exactly when a declaration cannot be met; every requirement gets what it is owed; order, causality, no failure on whole tapes, losses only with consent |
| `compiler_entangled` | a mapping that takes a required symbol away; two streams of which one is converted | violation: an accepted run does not deliver a requirement |
| `native` | a tape of 3 bars and three that are rejected, targets -24, 0, 8, 36 and 48 with lots of 24, few doubles, of which 8 is none, 2 actions per event, one refusal | where positions and fills of the three engines agree, what a snapshot shows |
| `native_rejections` | the same | violation: an order is refused and the report does not say so |
| `evidence` | 2 packages, commands `run`, `sandbox run` and `demo all`, one dataset manifest of several streams, 2 commands, 2 edits, crashes and timeouts anywhere | accepted evidence is of the current source and of one run; every sandbox run returns |

Bounds. Three events are the fewest in which an order can be decided on, pass by
one event that does not execute it (another instrument, an untouched limit) and
execute or expire at the next; four let a position open, grow, turn round and
close. Two actions per event give two orders in one tuple, an order and its
cancel, and up to four orders pending at once. The tapes contain a bar that
crosses both limits, a bar that touches one exactly, a quote with a spread, a
trade, two instruments, equal times with different sequence numbers, and the
three reasons to refuse a tape (empty, out of order, a repeated key). Cash is
small enough that fees and slippage show in the weights. The tapes and actions
are the only bounds of the engine's runs; no state constraint is used anywhere.

The bundled strategies run with windows of 1 and 2, two slices and second levels of a
book up to 2 ticks away. Their tapes let a channel break on both sides, a maker's order
fill on one side while the other stands, then on the other, so that it submits and
replaces in one answer; a pair gets out of step, comes in the other order, is met again
through a third instrument, diverges and takes a position; a TWAP order completes and
has a bar to spare; a batch of three is complete, then out of step.

Two processes are the fewest that race, and every property of the store relates at
most one writer to one other process; a third would be another reader. One
identifier with several contents is where requests interfere; distinct identifiers
share no file. One damaged file breaks any check that reads one. Processes are
interchangeable, so the store's runs use their symmetry (none checks liveness).

For the compiler, four bars fill two intervals of two seconds, one of three and
leave a partial one; a tape with a gap, one that is late and one without bars are
among them. Two instruments and two symbols that map to one another give every
collision. Each request is one of finitely many initial states and runs to its end,
so there is no bound on steps.

Three bars let a target be decided, executed and corrected; targets within a lot,
across zero and equal to the position occur, and one refused order suffices to
leave the engines apart. The doubles lie closer together around zero, as real ones do;
one is printed as the target it is nearest to, and sums of doubles that are none occur.
Two commands are the fewest in which a rerun meets the
files of an earlier command or of a container that lives on; two edits are the
fewest that change a package and change it back. A third command would only add
another earlier generation of files. `demo all` has two targets so that one is
edited while the other runs; only the second is editable, because edits to the
first reach nothing that edits to the second do not.

Assumptions of single properties. `LiveIdsUnique` holds when the strategy never
uses an identifier of the generated form (`IdsApart`, true of `OrderActions`);
the run `engine_duplicate_id` shows what happens otherwise. `PositionWithinLimit`
and `PositionIsLastTarget` hold for strategies that submit no direct orders
(`TargetsOnly`): the code compares direct orders with `max_order_quantity` only.

Fairness. `FairSpec` is weak fairness of `Proceed`, every step but `StrategyRaises`:
one thread runs the loop, every branch returns or raises, and callbacks return. A
callback may raise but never has to, so no run ends only because one did.
(A callback that never returns is what the sandbox timeout is for; it is not part
of the engine.) Which action the strategy returns is under no fairness; a tuple
is finite because `MaxActions` bounds it.

`RunEvidence` is weakly fair only to the docker client, `HostReturns` or
`HostTimeout`: `subprocess.run` has a timeout, and its clock needs no progress of the
container. Steps of a container are not fair, because a strategy may loop; commands
that run in the caller's process may therefore never return. The compiler, the
bridges and the store are checked for safety only: the first two are sequential
computations over finite tuples, and a store call that stops is a crash.

More assumptions of single properties. `RequirementsSatisfied` holds in `compiler`
for requests in which no mapping takes a required symbol away and the streams of a
run are converted alike (`Asked`); `compiler_entangled` shows what happens without.
`WholeTapesConvert` asks for the bars of every interval that has one (`Whole`), not for
a tape without nights, and for names that leave room for the identifiers made of them
(`Roomy`). `ManifestMeansWhole` exempts payloads named as the manifest, and
`SavedIsLoadable` says that those never load.
`PositionsAgree` and `FillShapesAgree` name their conditions: no refused order; for
Nautilus positions within half a lot, and fills of whole lots, none in parts; for
Backtrader one target to an event and no rounded double, which is also the condition of
its part of `SnapshotsExplained`. `VerifiedRanCurrentSource` has two exceptions, an edit
between the second evidence and the import, and events of a manifest of several
streams, which nothing compares with it. `EvidenceIsOneRun` leaves out directories whose
run was cut off while writing, and containers that outlived their client: there a
mixture is possible, and the verifier does not notice it.

### What the runs found

* A strategy's identifier can coincide with a generated one
  (`reference.py:230`): the duplicate check of line 248 is made for direct orders
  only. Cancel then reports one order and removes two.
* A save that is interrupted after `mkdir` leaves a directory without a manifest
  (`artifacts.py:113`); every later save of the same artifact, identical or not, is
  refused as `ARTIFACT_HASH_MISMATCH`, and nothing removes the directory. The
  test `test_artifacts.py:60` expects the same save to be idempotent; it is, unless
  the first one was cut short.
* A compatibility record is applied to every event, whatever stream it was compiled
  for (`compatibility.py:18`), and a mapping may rename a symbol that is itself
  required: accepted runs that do not deliver what a requirement asks for, although
  the contract says that such runs are refused.
* An order that a native broker refuses leaves an acceptance and nothing more in the
  report of either bridge (`backtrader.py:191`; Nautilus has no handler), although
  `docs/adapter-guide.md:31` and `spec/runtime-interfaces.md:82` say that rejections
  must not be swallowed. `OrderEventRecord.status` has no literal for one.

Also noticed: a save under the logical name `manifest.json` passes `_validate_component`
(`artifacts.py:44`), overwrites its own payload (line 135) and returns a manifest that
never loads. The engine never compares an action with the kinds that the manifest
declares; `spec/runtime-interfaces.md:45` asks for actions of the declared space.
`load_bytes` compares the digest and not the size, which `spec/runtime-interfaces.md:66`
names too; a file with the declared digest has the declared size. And with no claim in
the code or the docs to check it against: a replacement is not compared with
`max_order_quantity`; with negative equity the sign of a weight's target turns round;
artifacts that are named by content are refused to a second training that reaches the
same payload with another seed or dataset.

About the compiler: lookback, book depth and staleness of a requirement are never
compared with the stream; a trailing interval of which bars are missing makes an
accepted plan fail with `COMPATIBILITY_TRANSFORM_FAILED`, and so does an instrument or a
source with too long a name; when bars arrive out of order, open and close of a merged bar follow availability.

About the strategies: a bar of another instrument that arrives while the pair is in step
makes `PairsZScoreStrategy` add the same spread to its history once more; the pair stays
hedged. The L2 maker never reads its `initialized`.

About the bridges: several targets of one event add up on Backtrader and the last one
wins on Nautilus; quantities that are no doubles make the Backtrader position drift from
its target and from the sum of the reported fills; the last target of a tape is never sent on Nautilus; a Nautilus
snapshot precedes the execution of the order of its bar; a quantity under half a lot
fails the run. `docs/architecture.md:42` says that decisions and fill shapes agree
across engines; they do for the evidence strategy, under the conditions above.

About the evidence: the verifier compares neither `report.json` with `bundle.json`
nor the dataset and the events of a bundle with the package, and does not read which
engine made it. The events of a dataset of several streams are compared with no hash at
all. After an edit of the dataset, or a rerun that fails, the earlier
evidence is still accepted.

## 4. Proofs

All theorems hold for every value of the constants that the modules' named
assumptions allow:

* `ConstantsAssumption`, `LimitsAssumption`: any tapes, actions, bounds, fees, slippage
  below 100% and limits. `AccountAssumption`: an account has finitely many instruments.
* `StrategiesAssumption`, `SessionsAssumption`: any windows, number and quantity of
  slices, and sessions of the bundled strategies or of any other. The two symbols of
  a pair differ, as the code's do (`rule.py:84`, `reinforcement_learning.py:386`).
* `StoreAssumption`: the digest is injective, and no payload is a torn file or a manifest.
  Any logical name may be requested, that of the manifest included; only the theorems
  about the orchestrator rest on `TrainingsAssumption`, that no trained strategy uses it.
  `EngineErrorsAssumption`: no engine raises a code of the store, the plan or the
  lifecycle. The number of processes, requests and damaged files is arbitrary.
* `RequestsAssumption`: requirements and streams are tuples, levels and intervals are
  numbers, and whatever names an instrument, in an event or as the image of the
  policy's mapping, is one. No event is available before its own time, which
  `MarketEvent.validate_times` (`domain/market.py:95`) refuses. Streams may share an
  identifier. `RankAssumption`, `LengthAssumption`: identifiers have a total order and
  any lengths.
* `AdaptersAssumption`: any tapes of finite length, any set of whole target
  quantities, any lot size. `DoublesAssumption`: any set of doubles that has zero and
  the negative of each; two of them that differ have a difference that is not rounded to
  zero (gradual underflow); `str` prints the sign, and zero of zero only.
* `EvidenceAssumption`: the commands are those the command line offers, and packages
  have different `strategy_id`s; any contents of manifests are of one stream or several.

Some theorems take one more assumption about the strategy, stated in the theorem:
`IdsApart` (it never uses an identifier of the generated form;
`engine_duplicate_id` shows why) or `TargetsOnly` (it submits no direct orders).
`StrategiesServe` is about the engines with `LimitsServe`: no limit is tighter than the
manifest's, which holds because the engine reads the limits of the manifest it runs
(`reference.py:255` and `562`), and a slice of TWAP is no more than its
`max_order_quantity` (the defaults are 8 in 4 slices, and 2; another `total_quantity`
would make the engine refuse the first slice).
`LossesAreDeclared` is about the requests with `SymbolsApart`: every instrument of the
dataset is of a stream, and the policy's mapping gives no symbol of one stream the name
of another stream's, nor one name to two of two streams. A symbol map of the plan reaches the events of every stream,
whichever stream it was made for, and the compiler compares names within one stream
only; within a stream no assumption is needed. `WholeDataConverts` is about the requests
with `ConvertedAlike`: every event is a bar of a required stream, and the requirements
have one interval, besides the exceptions the property names. A resampling also reaches the events of every stream, the quotes and
the bars that are wanted at another interval included, and it may refuse them however
whole the stream is that it was made for. `DeliversWhatIsOwed` is about the requests
with `AskedAlone`: one requirement; the instruments of its stream are those of no other,
and no event of another instrument already has a wanted name; no wanted name is itself
mapped; and if bars are to be merged, those of one instrument became available in the
order of their times, each time once. The last part is needed because the open and the
close of a merged bar are those of its earliest and latest event time, and a plan sorts
by availability. Any symbols, mapping, interval and number of events are covered, mapping
and resampling together included; what is left out is several requirements at once, where
a record made for one also reaches the events of another (`compiler_entangled`).

| Theorem | Property | Assumes |
|---|---|---|
| `TypeCorrect` | `TypeOK` | |
| `LiveIdentifiersUnique` | `LiveIdsUnique` | `IdsApart` |
| `OrdersEndOnce` | `OneEnd` | `IdsApart` |
| `NoLookAhead` | `FillsAfterDecision` | `IdsApart` |
| `NoMissedExecution` | `NothingMissed` | `IdsApart` |
| `OrdersHonoured` | `TermsHonoured` | `IdsApart` |
| `LimitHolds` | `PositionWithinLimit` | `TargetsOnly` |
| `NewestTargetCounts` | `PositionIsLastTarget` | `TargetsOnly` |
| `EngineImplementsLedger` | `ImplementsLedger` | `IdsApart` |
| `FillsExplainTheAccount` | `FillsExplainAccount` | |
| `AverageWithinItsFills` | `AverageWithinFills` | |
| `EquityAddsUp` | `EquityIdentity` | |
| `BundledBooks` | the three above, of `StrategiesSpec` | |
| `StrategiesServe` | `BundledStrategiesServe` | `LimitsServe` |
| `StoreTypes` | `StoreTypeOK` | |
| `LoadsTheSaved` | `LoadsWhatItSaved` | |
| `ManifestMarksWhole` | `ManifestMeansWhole` | |
| `SavedLoads` | `SavedIsLoadable` | |
| `OrchestratorTypes` | `OrchestratorTypeOK` | |
| `LegalTransitions` | `TransitionsLegal` | |
| `InferenceFollowsTraining` | `InferenceOnTrained` | |
| `CodesTellStages` | `CodeTellsStage` | |
| `ReportedIsWhole` | `ReportedArtifactWhole` | |
| `StoreIsRegistry` | `ImplementsRegistry` | |
| `RefusesTheUnfit` | `RefusedIffUnfit` | |
| `CompilerTypes` | `CompilerTypeOK` | |
| `DeliversInOrder` | `DeliveredInOrder` | |
| `LossesAreDeclared` | `LossesDeclared` | `SymbolsApart` |
| `ConversionsAreCausal` | `Causal` | |
| `WholeDataConverts` | `WholeTapesConvert` | `ConvertedAlike` |
| `DeliversWhatIsOwed` | `RequirementsSatisfied` | `AskedAlone` |
| `BridgesTypes` | `BridgesTypeOK` | |
| `SamePositions` | `PositionsAgree` | |
| `SameFills` | `FillShapesAgree` | |
| `SnapshotsAddUp` | `SnapshotsExplained` | |
| `WholeSharesAreExact` | nothing is rounded: the exceptions for doubles are empty | `SharesExact` |
| `EvidenceTypes` | `EvidenceTypeOK` | |
| `AcceptedRanCurrent` | `VerifiedRanCurrentSource` | |
| `OneRunEvidence` | `EvidenceIsOneRun` | |

Along which argument:

* Types. `TypeOK` alone is not inductive: a fill has a positive price only if
  there is a current event and its prices are positive, and the settled order is
  the first of a nonempty set of numbers. `TypeInv` therefore adds `LoopInv`,
  which ties the phase to the event index. The proof has one lemma per group of
  actions; the least element that `First` chooses exists because the numbers are
  well-founded (`WellFoundedInduction`).
* Four moves. Lemma `StepMoves`: every step of the engine leaves the order book
  alone (`Quiet`), adds an order (`Adds`), amends one (`Amends`) or closes one
  (`Closes`). Later proofs have one case per move instead of one per action. That
  a cancel closes one order and not several needs distinct identifiers, so
  `IdInv` comes first: generated identifiers carry their order's number, and the
  others are the strategy's.
* `EndInv` adds to `OneEnd` that events are about accepted orders.
* `ClockInv` (no look-ahead): during settlement every decision is dated before
  the current event, and an order that has filled is no longer live, so no later
  decision is about it.
* `NothingMissed` speaks of the events an order has lived through and of the
  orders still to settle, and is inductive given the types.
* `TermsInv`: a live order carries the terms of its last decision, a fill is made
  from a live order, and a filled order is never decided on again.
* `LimitInv`: with targets only every live order is a target within the limit, and
  a fill puts the position exactly on its target.
* `LastInv` (the newest target counts): targets that have settled are older than
  those of their instrument that are still live, and while orders are settled none
  of the current instrument is passed over, so the settled one is always the newest.
* Refinement. The mapped outcome picks the one terminal event of an order, so the
  proof rests on `EndInv`: an event appended for an order without one adds one
  entry (`OutcomeAppended`), and any other event changes nothing.
* Money. `MoneyInv`. A sum over a finite set is the one function on its subsets that
  adds a term per element (`Additive`), found and told apart by a least counterexample
  among the subsets, since induction itself is out of reach; from it follows what one
  more term, one changed term and a difference of terms do to a sum. A fraction is
  known through any whole terms it is equal to (`Is`), which is how the arithmetic
  of `Rational`, in lowest terms, meets ordinary arithmetic. The heart is `BalanceInv`:
  over one common denominator, the realized profit of an instrument less its
  position at the average price is minus what its fills have cost. A fill that opens
  or adds keeps it (`OpeningBalance`), and so does one that reduces, closes or turns
  round (`ClosingBalance`). `ValueInv` follows `_snapshot` position by position. With
  these, profit per instrument is a whole number again (`ProfitIs`), and the equity
  is the sum. That the average lies between two fill prices is not inductive without
  `BalanceInv`, which makes it a fraction at all. These theorems are about `BooksSpec`:
  a strategy that returns any actions of a set `Actions` of any size.
* Books under bundled strategies. What these return are actions, but no members of
  `Actions`. The lemmas about the handlers are therefore about any `a \in Action`;
  `StrategyInv` and `CurrentInv` say that every answer is a tuple of actions on
  instruments that have a price, strategy by strategy, whatever their models
  compute; and `EngineMoves` shows that every step is one of `BooksNext` or handles
  such an action, which leaves the account alone (`ActionRests`).
* Bundled strategies. `ServeInv` is one conjunction for all of them. `FitInv`: what is
  left of the answer is of actions that the engine will take, and they still fit
  when those before have been handled. It needs to know which identifiers are live:
  those of counting strategies are the numbers counted so far, and the new one is
  the next (`CountInv`); the maker's are its two quotes, and what it replaces
  is open, since nothing fills between a call and its answer (`ListInv`).
  `QuoteInv` follows the two quotes through the answer, one by one. `PairInv` says
  what each leg is aimed at: the quantity it holds if no target of it is live, and
  the newest target otherwise, so that settling one leg, an older target first, moves
  the position and not the aim; between two answers the aims are opposite. `TwapInv`
  counts: the slices that have been sent are those of the bars so far, to `Slices`;
  each one is a fill or an order that waits for the first event of its instrument
  since (`Awaits`); so a tape on which every sliced bar is followed by such an
  event (`Followed`) fills them all.

* Store. `StoreInv` says what a process inside a call knows (`CallInv`: its request
  is safe, a load within a save is about its own manifest, no answer is left over
  from the call before) and that a directory has at most one writer
  (`WriterInv`, from `mkdir(exist_ok=False)`). It holds whatever is damaged, and with
  the injective digest (`StoreAssumption`) gives `LoadsWhatItSaved`. `DiskInv` is
  about an undamaged disk: how far a writer has come is what its directory
  contains, and what a process knows to be saved is there. A step that writes a file
  (`PlaceDisk`) does so in a directory whose manifest is absent or torn, hence one
  that no other process knows; the other steps (`QuietDisk`) leave the files alone. If
  the payload is named as the manifest, there is one file and it is never the payload
  again, which is all that the exceptions of the properties say.
  These hold for any number of processes, requests and damaged files.
* Orchestrator. The five properties look at a run when it ends, and none of them is
  inductive. `RunInv` says what a run is at every statement: the states it has walked
  through (`Walked`), what it has asked the store for and kept, that it runs inference
  on the payload it saved, and at its end that it has succeeded or at which statement
  it failed, with which codes. With `StoreInv` the answer of the store to that call is
  known, with `DiskInv` that a reported artifact is whole. `StoreIsRegistry` maps each
  step of the store to a publication, a reuse, an answer of the registry or a stutter:
  an artifact is published with the last write of its manifest, and only the
  writer of a directory makes that one.
* Compiler. `CompileInv`: while requirement `next` is compiled, the declarations fit and
  so does every requirement before it; a refusal is of the first check that does not
  fit. `_find_stream` takes the first stream of an identifier, and so does `Fits`: lemma
  `FirstFound`, by the least position that has it.
* Conversions. `PlanInv` says that every record of a plan is an exact one, a map whose
  images are instruments or a resampling that the policy authorized (`PlanRecords`),
  which needs what an accepted requirement has checked (`RequirementAccepted`), and
  that the events are events, in order if the tape is. Sorting is written by ranks: the
  k-th of a finite set under a strict total order is the one with k - 1 before it, and
  lemma `Ranked` shows that there is exactly one. The sort is stable, as Python's is, so
  positions are ordered (`Precedes`) where events may be equal; merged bars never are,
  because `Numbered` gives each a number of its own. `GroupIs`, `NumberedIs` and
  `ResampledIs` follow the events through the three sorts, and `MergedIs` through the
  volume of a merged bar, a fold over its bars.
  `NamesInv` compares the events with the tape, one by one, as long as no record is
  lossy: an event has its own name or the one that the policy gives it for a stream it
  was mapped for (`NameOf`), a name that is given is not given away again
  (`MapKeepsNames`), and two instruments never have one (`NamesDiffer`).
* No look-ahead in conversions. `CausalInv` compares two computations: what the records so
  far have made of the whole tape, and what the same records make of the events known at
  a time (`Runs`, the steps of the fold). The second is always a cut of the first
  (`Cut`): the same events as far as they were available, in the same order, and beside
  them only events of an instrument and a time for which the whole has a later one. Every record keeps that. A symbol map does (`MapCut`). A
  resampling does (`ResampleCut`) because the buckets are those of the events, each
  with a part of its bars (`GroupsAlike`); a merged bar is available exactly when all of
  its bars are (`BarAvailable`); its bars are then the same ones, in the same order,
  since sorts of corresponding events correspond (`SameOrder`), and merge to the same
  bar (`MergedAlike`). Ties in time are decided by the position in the tuple, and a cut
  keeps positions in order. No order of the tape is assumed.
* Whole data. Names have room to grow: after each record a source is at most one prefix
  longer and an instrument is one the tape or a mapping has (`Roomy`). A merged bar is dated to the end of its interval, and the validator refuses
  one that was available before. `WholeInv` says that every interval with a bar has its last bar
  (`Complete`), which a resampling by the same interval keeps, as it leaves one bar per
  interval, dated to its end (`EndIs`), and a map keeps; the last bar is not available
  before its own time, hence the merged one is not either.
* What is owed. `AloneInv` says where the plan is: its records are those of the one
  requirement, at most a map and then a resampling (`RecordsFor`), and the events are the
  tape, the tape under the wanted names (`Halfway`) or these resampled (`Final`), by the
  number of the next record. `HalfwayNamed` finds behind each event with a wanted name the
  one event of the stream it was, and no other. A closed interval of the specification,
  stated over the tape, is then the bars that `resample_bars` groups (`BarsWithin`,
  `ClosesKeyed`), and they are merged into the bar that is owed (`BarOwed`): first and
  last by availability are first and last in time, extremes are extremes, and the volume,
  a fold over a sorted sequence in the code and a sum over a set in the property, is both
  times the one additive function of `SumTheorems` (`RunningSum`, `VolumesSummed`).
* Bridges. `AdaptersInv` compares the three engines within a bar: the native order in
  flight brings a bridge exactly where the reference engine will settle
  (`BacktraderInv`, while nothing was rounded) or within half a lot of it
  (`NautilusInv`), Nautilus holds whole lots and the last target only
  (`PendingInv`), and the fills agree but for the one in flight (`FillsInv`). The folds of the model over a bar's orders are each shown to be the
  last of the values they pass through, by a least counterexample over the numbers.
  `ShownInv` adds that on each engine some running sum of the fills ends at the
  position (`Explained`), on NautilusTrader within a bar the fills of the bars before.
  That makes every step of those folds keep one more fact, and the sum in
  `SnapshotsExplained`, a fold itself, equal to the position shown. `WholeSharesAreExact`
  is by an invariant of its own (`SharesInv`): until an event has several targets, the
  Backtrader position is zero or a target and an order in flight is a difference of two,
  which `SharesExact` says are doubles.

* Evidence. `VerifiedRanCurrentSource` says nothing of a run in progress, so it is
  not inductive. `EvidenceInv` adds what a run knows by its step (`MemoryOf`: from the
  load on its events are the declared ones if they were compared, from the import on its two evidences
  are equal) and that a whole file carries it (`FileOf`). An edit does not reach the
  memory of a run; a torn file is not whole; the events are the declared ones where the
  manifest is of one stream; `Verified` compares the evidence of the
  bundle with the package. Lemma `RunKeepsInv` serves the steps that change one run,
  `FileKeepsInv` those that also write a file. Two versions of each part are part of
  the model; the number of packages, commands and edits is arbitrary.
* One run. `EvidenceIsOneRun` needs to know who writes a directory. As long as no
  container has outlived its client (`NoTimeout`), commands are serial (`Serial`): one
  at most is live, the last one started; the files it has begun on are its own, one by
  one; every other directory is of one run, or has no whole bundle, or was left by a
  command that was cut off; and nothing is older than the summary. `ShapeInv` says that a
  host has not answered while its container runs, except for a timeout.

Only model-checked:

* `RunEnds` and `SandboxRunReturns` are liveness, which no installed prover reaches.
* `RequirementsSatisfied` for several requirements at once, in the requests of `compiler`
  that convert their streams alike (`Asked`). In general it is false
  (`compiler_entangled`).

## 5. Plan

1. Engine, orders, ledger and accounting: done, with theorems for every safety
   property and the refinement.
2. `ArtifactStore`, `Orchestrator` and `ArtifactRegistry`: done, likewise.
3. `RunEvidence`, with package loader, bundles, sandbox and verifier: done; every safety
   property is a theorem.
4. `NativeAdapters`: done; every safety property is a theorem.
5. `Compiler` and `Compatibility`: done; every safety property is a theorem,
   `RequirementsSatisfied` for a requirement that stands alone.
6. `Strategies` composed with the engine: done; its property and the accounting of the
   engine under it are theorems.
7. Open: `RequirementsSatisfied` for several requirements that are converted alike, as a
   theorem; more of the verifier.

## 6. Not modelled

* Of the strategies: model fitting, and what a fitted model computes from an event, are
  numerical code (what training does with artifacts is in `Orchestrator`). The
  catalogue and the synthetic data are tables.
* The authoring audit compares two documents, one membership test per check, and
  keeps no state.
* Of the verifier: its inventory of documents, schemas, tests and tokens in sources,
  and the failure bundles it expects. These are file existence and text tests over
  the repository, not over runs.
* The engine registry and the profile inventory are tables; the docker arguments are
  a constant; the static source scan is a walk over a syntax tree whose answer is a
  nondeterministic refusal in `Import`.
* HTML, argument parsing and schema export format and print.
