----------------------------- MODULE RunEvidence -----------------------------
(* The commands that turn strategy packages into evidence, and the evidence
   they leave on disk: `psrc run`, `psrc sandbox run` and `psrc demo all`
   (cli.py), the discovery and the loading of a package (runtime/package.py),
   the docker host (sandbox/container.py), the writing of a run bundle
   (runtime/report.py) and what the acceptance verifier accepts of it
   (evidence/verify.py).

   One operator starts a command when the previous one has returned.  Packages
   are edited at any time, processes die at any time, and the container of a
   command that timed out goes on.  What a strategy does inside a run is
   ReferenceEngine and Orchestrator; here a run succeeds or fails. *)
EXTENDS Naturals, Sequences, FiniteSets

CONSTANTS
    PackageOrder,   \* the strategy packages, in the order of their strategy_id
    Invocations,    \* the commands the operator may start
    OneStream,      \* the dataset manifests that declare one stream: <<package, version>>
    Editable,       \* the parts of packages that may be written: <<package, part>>
    MaxRuns,        \* bound: commands started
    MaxEdits        \* bound: parts of packages written

VARIABLES
    package,    \* the source, the dataset manifest and the input events of each package
    files,      \* the output directory of each package
    summary,    \* summary.json of `demo all`
    runs,       \* the commands started, in order
    edits

vars == <<package, files, summary, runs, edits>>

Packages == {PackageOrder[i] : i \in DOMAIN PackageOrder}
Parts == {"source", "dataset", "events"}
Versions == {"a", "b"}     \* contents a part of a package can have
None == "none"

(* The files of an evidence directory in the order they are written; "records"
   stands for the plan, decisions, orders, fills, snapshots, artifacts, logs
   and the first report.html, "evidence" for the manifests, events and
   strategy-code-evidence.json. *)
Files == <<"report", "records", "evidence", "bundle">>
FileNames == {Files[i] : i \in DOMAIN Files}
ValidatedBefore == 3    \* write_input_evidence builds the RunBundle before "evidence"

(* A file is absent, opened by a run, torn by two runs, or whole; a whole file
   tells which run wrote it and what that run read of the package. *)
NotRead == [attested |-> FALSE, seen |-> None, checked |-> None, ran |-> None,
            dataset |-> None, events |-> None]
File(state, id, read) == [state |-> state, run |-> id, read |-> read]
Absent == File("absent", 0, NotRead)
Torn == File("torn", 0, NotRead)
Opened(id) == File("open", id, NotRead)

Commands == {"run", "sandbox", "demo"}

(* `run` and `sandbox run` are about one package, `demo all` about all of them;
   `run` and `demo all` run in the process they are called in, which is
   attested when it is itself in a strict container. *)
Invocation ==
    {[command |-> "run", targets |-> <<p>>, attested |-> a] : p \in Packages, a \in BOOLEAN}
    \cup {[command |-> "sandbox", targets |-> <<p>>, attested |-> TRUE] : p \in Packages}
    \cup {[command |-> "demo", targets |-> PackageOrder, attested |-> a] : a \in BOOLEAN}

(* A package is known by its strategy_id, which names its output directory:
   two packages of one strategy_id, which nothing refuses, are left out. *)
ASSUME EvidenceAssumption ==
    /\ PackageOrder \in Seq(STRING) /\ PackageOrder # <<>>
    /\ \A i, j \in DOMAIN PackageOrder : PackageOrder[i] = PackageOrder[j] => i = j
    /\ Invocations \subseteq Invocation
    /\ OneStream \subseteq Packages \X Versions
    /\ Editable \subseteq Packages \X Parts
    /\ MaxRuns \in Nat /\ MaxEdits \in Nat

HostCodes == {"SANDBOX_TIMEOUT", "SANDBOX_RESOURCE_EXHAUSTED", "SANDBOX_EXECUTION_FAILED"}
EndStates == {"succeeded", "failed", "killed"}
Steps == {"discover", "dataset", "events", "load", "import", "execute",
          "open", "close", "summary"}

Ids == DOMAIN runs
Live(id) == runs[id].step \in Steps
Target(id) == runs[id].targets[runs[id].at]
Writing(id) == runs[id].step \in {"open", "close"}

(* The command has returned to its operator: the exit of the process, or, for
   `sandbox run`, of the docker client that waits for it. *)
Returned(id) == IF runs[id].command = "sandbox" THEN runs[id].host # "waiting" ELSE ~Live(id)

(* A command as it starts.  `seen` is the code evidence of its packages
   (package.code_evidence), `read` what it read of the package it is at. *)
NothingSeen == [p \in Packages |-> None]
NewRun(invocation) ==
    [command |-> invocation.command, targets |-> invocation.targets,
     attested |-> invocation.attested,
     host |-> IF invocation.command = "sandbox" THEN "waiting" ELSE None,
     step |-> "discover", at |-> 1, file |-> 1, seen |-> NothingSeen, read |-> NotRead]

Set(id, run) == runs' = [runs EXCEPT ![id] = run]
At(id, step) == Live(id) /\ runs[id].step = step

(* A process ends, and its memory with it. *)
Over(run, end) == [run EXCEPT !.step = end, !.at = 1, !.file = 1,
                              !.seen = NothingSeen, !.read = NotRead]
Fail(id) == Set(id, Over(runs[id], "failed"))

----------------------------------------------------------------------------
(* main: the next command; `sandbox run` starts an attested container. *)
Start ==
    /\ Len(runs) < MaxRuns
    /\ \A id \in Ids : Returned(id)
    /\ \E invocation \in Invocations : runs' = Append(runs, NewRun(invocation))
    /\ UNCHANGED <<package, files, summary, edits>>

(* The manifest of a target is invalid or its evidence cannot be built, strict
   execution is required of a process that is not attested, docker is absent. *)
RefuseStart(id) ==
    /\ At(id, "discover")
    /\ Fail(id)
    /\ UNCHANGED <<package, files, summary, edits>>

(* load_strategy_manifest, discover_strategy_packages: the source evidence of
   every target is taken before the first one runs. *)
Discover(id) ==
    /\ At(id, "discover")
    /\ Set(id, [runs[id] EXCEPT !.step = "dataset",
         !.seen = [p \in Packages |-> IF \E i \in DOMAIN runs[id].targets : runs[id].targets[i] = p
                                      THEN package[p].source ELSE None]])
    /\ UNCHANGED <<package, files, summary, edits>>

(* _load_package_inputs reads the dataset manifest, then the events; those of
   a manifest of one stream must have the hash it declares, those of several
   streams are compared with nothing.  Then compile_run may refuse. *)
ReadDataset(id) ==
    /\ At(id, "dataset")
    /\ Set(id, [runs[id] EXCEPT !.step = "events",
         !.read = [NotRead EXCEPT !.attested = runs[id].attested, !.seen = runs[id].seen[Target(id)],
                                  !.dataset = package[Target(id)].dataset]])
    /\ UNCHANGED <<package, files, summary, edits>>

Compared(id) == <<Target(id), runs[id].read.dataset>> \in OneStream

ReadEvents(id) ==
    LET observed == package[Target(id)].events
    IN  /\ At(id, "events")
        /\ \/ /\ Compared(id) => observed = runs[id].read.dataset
              /\ Set(id, [runs[id] EXCEPT !.step = "load", !.read.events = observed])
           \/ Fail(id)     \* DATA_HASH_MISMATCH, or a refusal of the compiler
        /\ UNCHANGED <<package, files, summary, edits>>

(* load_strategy takes the evidence again, compares it with the one of the
   discovery, and only then scans and imports the source. *)
SlipLoad(id) ==
    /\ At(id, "load")
    /\ Set(id, [runs[id] EXCEPT !.step = "import", !.read.checked = package[Target(id)].source])
    /\ UNCHANGED <<package, files, summary, edits>>
Load(id) ==
    LET observed == package[Target(id)].source
    IN  /\ At(id, "load")
        /\ IF observed = runs[id].read.seen
           THEN Set(id, [runs[id] EXCEPT !.step = "import", !.read.checked = observed])
           ELSE Fail(id)     \* SOURCE_HASH_MISMATCH
        /\ UNCHANGED <<package, files, summary, edits>>

(* _enforce_source_policy and exec_module; the policy, the entrypoint or its
   manifest may be refused. *)
Import(id) ==
    /\ At(id, "import")
    /\ \/ Set(id, [runs[id] EXCEPT !.step = "execute", !.read.ran = package[Target(id)].source])
       \/ Fail(id)
    /\ UNCHANGED <<package, files, summary, edits>>

(* run_rule or run_trainable; a run that fails writes nothing. *)
Execute(id) ==
    /\ At(id, "execute")
    /\ \/ Set(id, [runs[id] EXCEPT !.step = "open", !.file = 1])
       \/ Fail(id)
    /\ UNCHANGED <<package, files, summary, edits>>

----------------------------------------------------------------------------
(* _write_json: the file is truncated when it is opened; two processes that
   have it open at once leave the bytes of one of them, or of both. *)
SharesFile(id, file) ==
    \E other \in Ids \ {id} : At(other, "close") /\ Files[runs[other].file] = file
                                                 /\ Target(other) = Target(id)

OpenFile(id) ==
    LET file == Files[runs[id].file]
    IN  /\ At(id, "open")
        /\ files' = [files EXCEPT ![Target(id)][file] =
                        IF SharesFile(id, file) THEN Torn ELSE Opened(id)]
        /\ Set(id, [runs[id] EXCEPT !.step = "close"])
        /\ UNCHANGED <<package, summary, edits>>

(* After the last file of a package come the next package of `demo all`, its
   summary, or the end. *)
SlipAfterPackage(run) ==
    IF run.at < Len(run.targets) - 1 THEN [run EXCEPT !.step = "dataset", !.at = @ + 1, !.file = 1,
                                                      !.read = NotRead]
    ELSE IF run.command = "demo" THEN [run EXCEPT !.step = "summary"]
    ELSE Over(run, "succeeded")
AfterPackage(run) ==
    IF run.at < Len(run.targets) THEN [run EXCEPT !.step = "dataset", !.at = @ + 1, !.file = 1,
                                                  !.read = NotRead]
    ELSE IF run.command = "demo" THEN [run EXCEPT !.step = "summary"]
    ELSE Over(run, "succeeded")

AfterFile(run) ==
    IF run.file < Len(Files) THEN [run EXCEPT !.step = "open", !.file = @ + 1]
    ELSE AfterPackage(run)

CloseFile(id) ==
    LET file == Files[runs[id].file]
        whole == File("whole", id, runs[id].read)
    IN  /\ At(id, "close")
        /\ \E content \in IF files[Target(id)][file] = Opened(id) THEN {whole}
                          ELSE {whole, Torn} :
              files' = [files EXCEPT ![Target(id)][file] = content]
        /\ Set(id, AfterFile(runs[id]))
        /\ UNCHANGED <<package, summary, edits>>

(* RunBundle.validate_context_integrity runs when report.json and the records
   are written: a trained artifact with another seed or dataset than requested
   ends the command there. *)
BundleMismatch(id) ==
    /\ At(id, "open") /\ runs[id].file = ValidatedBefore
    /\ Fail(id)
    /\ UNCHANGED <<package, files, summary, edits>>

WriteSummary(id) ==
    /\ At(id, "summary")
    /\ summary' = id
    /\ Set(id, Over(runs[id], "succeeded"))
    /\ UNCHANGED <<package, files, edits>>

Process(id) ==
    \/ RefuseStart(id) \/ Discover(id) \/ ReadDataset(id) \/ ReadEvents(id)
    \/ Load(id) \/ Import(id) \/ Execute(id)
    \/ OpenFile(id) \/ CloseFile(id) \/ BundleMismatch(id) \/ WriteSummary(id)

----------------------------------------------------------------------------
(* DockerSandbox.execute waits for the container and maps its exit code; at the
   timeout only the client that waits is killed. *)
SlipHostReturns(id) ==
    /\ runs[id].host = "waiting" /\ ~Live(id)
    /\ Set(id, [runs[id] EXCEPT !.host = runs[id].step])
    /\ UNCHANGED <<package, files, summary, edits>>
HostReturns(id) ==
    /\ runs[id].host = "waiting" /\ ~Live(id)
    /\ Set(id, [runs[id] EXCEPT !.host =
         CASE runs[id].step = "succeeded" -> "succeeded"
           [] runs[id].step = "killed" -> "SANDBOX_RESOURCE_EXHAUSTED"
           [] OTHER -> "SANDBOX_EXECUTION_FAILED"])
    /\ UNCHANGED <<package, files, summary, edits>>

SlipHostTimeout(id) == FALSE /\ UNCHANGED vars
HostTimeout(id) ==
    /\ runs[id].host = "waiting" /\ Live(id)
    /\ Set(id, [runs[id] EXCEPT !.host = "SANDBOX_TIMEOUT"])
    /\ UNCHANGED <<package, files, summary, edits>>

(* A process is killed between two steps; an opened file stays as it is. *)
Crash(id) ==
    /\ Live(id)
    /\ Set(id, Over(runs[id], IF runs[id].command = "sandbox" THEN "killed" ELSE "failed"))
    /\ UNCHANGED <<package, files, summary, edits>>

(* A part of a package is written again, by its author or by `psrc package
   export`, which writes the parts of a package one after the other. *)
Edit ==
    /\ edits < MaxEdits
    /\ \E target \in Editable, version \in Versions :
          /\ version # package[target[1]][target[2]]
          /\ package' = [package EXCEPT ![target[1]][target[2]] = version]
    /\ edits' = edits + 1
    /\ UNCHANGED <<files, summary, runs>>

----------------------------------------------------------------------------
(* verify_acceptance, for one package: every file is there, bundle.json and
   the standalone evidence parse, and the code evidence of the bundle is the
   one of the package as it is now and the standalone one. *)
SlipVerified(p) ==
    /\ \A f \in FileNames : files[p][f].state # "absent"
    /\ \A f \in {"report", "evidence", "bundle"} : files[p][f].state = "whole"
    /\ files[p]["bundle"].read.seen = files[p]["evidence"].read.seen
Verified(p) ==
    /\ \A f \in FileNames : files[p][f].state # "absent"
    /\ \A f \in {"report", "evidence", "bundle"} : files[p][f].state = "whole"
    /\ files[p]["bundle"].read.seen = package[p].source
    /\ files[p]["bundle"].read.seen = files[p]["evidence"].read.seen

(* The checks of the verifier that are about the runs, for a verifier that is
   itself attested or not. *)
Accepted(attested) ==
    /\ summary # 0
    /\ \A p \in Packages : Verified(p) /\ files[p]["report"].read.attested = attested

----------------------------------------------------------------------------
Init ==
    /\ package = [p \in Packages |-> [part \in Parts |-> "a"]]
    /\ files = [p \in Packages |-> [f \in FileNames |-> Absent]]
    /\ summary = 0
    /\ runs = <<>>
    /\ edits = 0

Next ==
    \/ Start
    \/ Edit
    \/ \E id \in Ids : Process(id) \/ HostReturns(id) \/ HostTimeout(id) \/ Crash(id)

(* The clock of the docker client and its return need no luck; a strategy may
   loop, so the steps of the process that runs it are not fair. *)
Fairness == \A id \in 1..MaxRuns :
    WF_vars(id \in Ids /\ (HostReturns(id) \/ HostTimeout(id)))

Spec == Init /\ [][Next]_vars /\ Fairness
=============================================================================
