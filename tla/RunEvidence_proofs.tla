-------------------------- MODULE RunEvidence_proofs --------------------------
(***************************************************************************)
(* Proofs about the evidence of runs, for any packages, commands, edits    *)
(* and crashes, and any number of commands.                                *)
(***************************************************************************)
EXTENDS EvidenceProperties, SequenceTheorems, TLAPS

(* What a run knows of the package it is at, by its step: its events are    *)
(* those the dataset declares from the load on, if that has one stream, and *)
(* the evidence it took the second time is the one of the discovery from    *)
(* the import on.                                                           *)
Matched(p, read) == <<p, read.dataset>> \in OneStream => read.events = read.dataset

Loaded == {"load", "import", "execute", "open", "close"}
MemoryOf(run) ==
    /\ run.step \in Loaded => Matched(run.targets[run.at], run.read)
    /\ run.step \in Loaded \ {"load"} => run.read.checked = run.read.seen

(* A whole file carries what its run knew when it wrote it.                 *)
FileOf(p, file) ==
    file.state = "whole" => /\ Matched(p, file.read)
                            /\ file.read.checked = file.read.seen

EvidenceInv ==
    /\ EvidenceTypeOK
    /\ \A id \in Ids : MemoryOf(runs[id])
    /\ \A p \in Packages, f \in FileNames : FileOf(p, files[p][f])

-----------------------------------------------------------------------------
LEMMA NotReadType == NotRead \in Read
BY DEF NotRead, Read, Known

LEMMA FixedFiles ==
    /\ Absent \in FileRecord /\ Torn \in FileRecord
    /\ \A id \in Nat : Opened(id) \in FileRecord
    /\ \A id \in Nat, read \in Read : File("whole", id, read) \in FileRecord
BY NotReadType DEF Absent, Torn, Opened, File, FileRecord

LEMMA OrderOfPackages == PackageOrder \in Seq(Packages) /\ Len(PackageOrder) > 0
<1>1. PackageOrder \in Seq(STRING) /\ PackageOrder # <<>>
  BY EvidenceAssumption
<1>2. \A i \in 1..Len(PackageOrder) : PackageOrder[i] \in Packages
  BY <1>1 DEF Packages
<1>3. PackageOrder \in Seq(Packages)
  BY <1>1, <1>2, IsASeq
<1>4. QED
  BY <1>1, <1>3, EmptySeq

LEMMA InvocationType ==
  ASSUME NEW invocation \in Invocations
  PROVE  /\ invocation.command \in Commands /\ invocation.attested \in BOOLEAN
         /\ invocation.targets \in Seq(Packages) /\ Len(invocation.targets) > 0
<1>1. invocation \in Invocation
  BY EvidenceAssumption
<1>2. \A p \in Packages : <<p>> \in Seq(Packages) /\ Len(<<p>>) = 1
  OBVIOUS
<1>3. CASE \E p \in Packages, a \in BOOLEAN :
             invocation = [command |-> "run", targets |-> <<p>>, attested |-> a]
  <2>1. PICK p \in Packages, a \in BOOLEAN :
             invocation = [command |-> "run", targets |-> <<p>>, attested |-> a]
    BY <1>3
  <2>2. invocation.command = "run" /\ invocation.targets = <<p>> /\ invocation.attested = a
    BY <2>1
  <2>3. QED
    BY <1>2, <2>2 DEF Commands
<1>4. CASE \E p \in Packages :
             invocation = [command |-> "sandbox", targets |-> <<p>>, attested |-> TRUE]
  <2>1. PICK p \in Packages :
             invocation = [command |-> "sandbox", targets |-> <<p>>, attested |-> TRUE]
    BY <1>4
  <2>2. invocation.command = "sandbox" /\ invocation.targets = <<p>> /\ invocation.attested \in BOOLEAN
    BY <2>1
  <2>3. QED
    BY <1>2, <2>2 DEF Commands
<1>5. CASE \E a \in BOOLEAN :
             invocation = [command |-> "demo", targets |-> PackageOrder, attested |-> a]
  <2>1. PICK a \in BOOLEAN :
             invocation = [command |-> "demo", targets |-> PackageOrder, attested |-> a]
    BY <1>5
  <2>2. /\ invocation.command = "demo" /\ invocation.targets = PackageOrder
        /\ invocation.attested = a
    BY <2>1
  <2>3. QED
    BY OrderOfPackages, <2>2 DEF Commands
<1>6. QED
  BY <1>1, <1>3, <1>4, <1>5 DEF Invocation

(* The run a step is about, and the package it is at.                       *)
LEMMA RunType ==
  ASSUME EvidenceInv, NEW id \in Ids
  PROVE  /\ runs[id] \in RunRecord /\ MemoryOf(runs[id])
         /\ Target(id) \in Packages
         /\ Files[runs[id].file] \in FileNames
         /\ id \in Nat \ {0} /\ id <= Len(runs)
<1>1. runs \in Seq(RunRecord) /\ id \in 1..Len(runs)
  BY DEF EvidenceInv, EvidenceTypeOK, Ids
<1>2. runs[id] \in RunRecord
  BY <1>1, ElementOfSeq
<1>3. /\ runs[id].targets \in Seq(Packages)
      /\ runs[id].at \in 1..Len(runs[id].targets)
  BY <1>2 DEF EvidenceInv, EvidenceTypeOK, RunRecord
<1>4. Target(id) \in Packages
  BY <1>3, ElementOfSeq DEF Target
<1>5. Files[runs[id].file] \in FileNames
  BY <1>2 DEF RunRecord, FileNames
<1>6. QED
  BY <1>1, <1>2, <1>4, <1>5 DEF EvidenceInv

(* A step that changes one run, and files no run has to answer for.         *)
LEMMA OneRun ==
  ASSUME EvidenceInv, NEW id \in Ids, NEW run \in RunRecord,
         run.at <= Len(run.targets), MemoryOf(run), Set(id, run)
  PROVE  /\ runs' \in Seq(RunRecord) /\ Len(runs') = Len(runs) /\ Ids' = Ids
         /\ runs'[id] = run
         /\ \A j \in Ids' : runs'[j].at <= Len(runs'[j].targets) /\ MemoryOf(runs'[j])
<1>1. runs \in Seq(RunRecord) /\ id \in 1..Len(runs)
  BY DEF EvidenceInv, EvidenceTypeOK, Ids
<1>2. runs' = [runs EXCEPT ![id] = run]
  BY DEF Set
<1>3. runs' \in Seq(RunRecord) /\ Len(runs') = Len(runs)
  BY <1>1, <1>2, ExceptSeq
<1>4. \A j \in 1..Len(runs) : runs'[j] = IF j = id THEN run ELSE runs[j]
  BY <1>1, <1>2, ExceptSeq
<1>5. Ids' = Ids /\ Ids = 1..Len(runs)
  BY <1>1, <1>3, LenProperties DEF Ids
<1>6. QED
  BY <1>1, <1>3, <1>4, <1>5 DEF EvidenceInv, EvidenceTypeOK

LEMMA RunKeepsInv ==
  ASSUME EvidenceInv, NEW id \in Ids, NEW run \in RunRecord,
         run.at <= Len(run.targets), MemoryOf(run), Set(id, run),
         UNCHANGED <<package, files, summary, edits>>
  PROVE  EvidenceInv'
BY OneRun DEF EvidenceInv, EvidenceTypeOK

(* A process that ends takes what it knew with it.                          *)
LEMMA OverIsRun ==
  ASSUME NEW run \in RunRecord, run.at <= Len(run.targets), NEW end \in EndStates
  PROVE  /\ Over(run, end) \in RunRecord /\ MemoryOf(Over(run, end))
         /\ Over(run, end).at <= Len(Over(run, end).targets)
         /\ Over(run, end).host = run.host
<1>1. NothingSeen \in [Packages -> Known] /\ NotRead \in Read
  BY NotReadType DEF NothingSeen, Known
<1>2. 1 \in DOMAIN Files /\ 1 \in Nat \ {0}
  BY DEF Files
<1>3. Over(run, end) \in RunRecord
  BY <1>1, <1>2 DEF Over, RunRecord
<1>4. MemoryOf(Over(run, end))
  BY DEF Over, MemoryOf, Matched, Loaded, EndStates, RunRecord
<1>5. Over(run, end).at = 1 /\ Over(run, end).targets = run.targets
  BY DEF Over, RunRecord
<1>6. Len(run.targets) \in Nat /\ run.at \in Nat \ {0}
  BY DEF RunRecord
<1>7. QED
  BY <1>3, <1>4, <1>5, <1>6 DEF Over, RunRecord

LEMMA FailKeepsInv ==
  ASSUME EvidenceInv, NEW id \in Ids, Fail(id), UNCHANGED <<package, files, summary, edits>>
  PROVE  EvidenceInv'
<1>1. runs[id] \in RunRecord /\ runs[id].at <= Len(runs[id].targets)
  BY RunType DEF EvidenceInv, EvidenceTypeOK
<1>2. QED
  BY <1>1, OverIsRun, RunKeepsInv DEF Fail, EndStates

-----------------------------------------------------------------------------
LEMMA DiscoverStep ==
  ASSUME EvidenceInv, NEW id \in Ids, RefuseStart(id) \/ Discover(id)
  PROVE  EvidenceInv'
<1>1. CASE RefuseStart(id)
  BY <1>1, FailKeepsInv DEF RefuseStart
<1>2. CASE Discover(id)
  <2> DEFINE seen == [p \in Packages |->
                        IF \E i \in DOMAIN runs[id].targets : runs[id].targets[i] = p
                        THEN package[p].source ELSE None]
             run == [runs[id] EXCEPT !.step = "dataset", !.seen = seen]
  <2>1. \A p \in Packages : package[p].source \in Known
    BY DEF EvidenceInv, EvidenceTypeOK, Parts, Known
  <2>2. seen \in [Packages -> Known]
    BY <2>1 DEF Known
  <2>3. runs[id] \in RunRecord /\ runs[id].at <= Len(runs[id].targets)
    BY RunType DEF EvidenceInv, EvidenceTypeOK
  <2> HIDE DEF seen
  <2>4. run \in RunRecord /\ run.at <= Len(run.targets) /\ MemoryOf(run)
    BY <2>2, <2>3 DEF RunRecord, Steps, MemoryOf, Matched, Loaded
  <2>5. Set(id, run) /\ UNCHANGED <<package, files, summary, edits>>
    BY <1>2 DEF Discover, seen
  <2> HIDE DEF run
  <2>6. QED
    BY <2>4, <2>5, RunKeepsInv
<1>3. QED
  BY <1>1, <1>2

(* Reading, loading and importing change the memory of one run.             *)
LEMMA ReadDatasetStep ==
  ASSUME EvidenceInv, NEW id \in Ids, ReadDataset(id)
  PROVE  EvidenceInv'
<1> DEFINE read == [NotRead EXCEPT !.attested = runs[id].attested,
                                   !.seen = runs[id].seen[Target(id)],
                                   !.dataset = package[Target(id)].dataset]
           run == [runs[id] EXCEPT !.step = "events", !.read = read]
<1>1. /\ runs[id] \in RunRecord /\ runs[id].at <= Len(runs[id].targets)
      /\ Target(id) \in Packages
  BY RunType DEF EvidenceInv, EvidenceTypeOK
<1>2. /\ runs[id].seen[Target(id)] \in Known /\ package[Target(id)].dataset \in Known
      /\ runs[id].attested \in BOOLEAN
  BY <1>1 DEF EvidenceInv, EvidenceTypeOK, RunRecord, Parts, Known
<1>3. read \in Read
  BY <1>2 DEF Read, NotRead, Known
<1> HIDE DEF read
<1>4. run \in RunRecord /\ run.at <= Len(run.targets) /\ MemoryOf(run)
  BY <1>1, <1>3 DEF RunRecord, Steps, MemoryOf, Matched, Loaded
<1>5. Set(id, run) /\ UNCHANGED <<package, files, summary, edits>>
  BY DEF ReadDataset, read
<1> HIDE DEF run
<1>6. QED
  BY <1>4, <1>5, RunKeepsInv

LEMMA ReadEventsStep ==
  ASSUME EvidenceInv, NEW id \in Ids, ReadEvents(id)
  PROVE  EvidenceInv'
<1>1. CASE Fail(id)
  BY <1>1, FailKeepsInv DEF ReadEvents
<1>2. CASE /\ Compared(id) => package[Target(id)].events = runs[id].read.dataset
           /\ Set(id, [runs[id] EXCEPT !.step = "load",
                                       !.read.events = package[Target(id)].events])
  <2> DEFINE observed == package[Target(id)].events
             run == [runs[id] EXCEPT !.step = "load", !.read.events = observed]
  <2>1. /\ runs[id] \in RunRecord /\ runs[id].at <= Len(runs[id].targets)
        /\ Target(id) \in Packages
    BY RunType DEF EvidenceInv, EvidenceTypeOK
  <2>2. /\ observed \in Known
        /\ <<runs[id].targets[runs[id].at], runs[id].read.dataset>> \in OneStream =>
             observed = runs[id].read.dataset
    BY <1>2, <2>1 DEF EvidenceInv, EvidenceTypeOK, Parts, Known, Compared, Target
  <2>3. Set(id, run) /\ UNCHANGED <<package, files, summary, edits>>
    BY <1>2 DEF ReadEvents
  <2> HIDE DEF observed
  <2>4. run \in RunRecord /\ run.at <= Len(run.targets) /\ MemoryOf(run)
    BY <2>1, <2>2 DEF RunRecord, Read, Steps, MemoryOf, Matched, Loaded
  <2> HIDE DEF run
  <2>5. QED
    BY <2>3, <2>4, RunKeepsInv
<1>3. QED
  BY <1>1, <1>2 DEF ReadEvents

LEMMA LoadStep ==
  ASSUME EvidenceInv, NEW id \in Ids, Load(id)
  PROVE  EvidenceInv'
<1>1. CASE Fail(id)
  BY <1>1, FailKeepsInv DEF Load
<1>2. CASE /\ package[Target(id)].source = runs[id].read.seen
           /\ Set(id, [runs[id] EXCEPT !.step = "import",
                                       !.read.checked = package[Target(id)].source])
  <2> DEFINE observed == package[Target(id)].source
             run == [runs[id] EXCEPT !.step = "import", !.read.checked = observed]
  <2>1. /\ runs[id] \in RunRecord /\ runs[id].at <= Len(runs[id].targets)
        /\ Target(id) \in Packages /\ MemoryOf(runs[id]) /\ runs[id].step = "load"
    BY RunType DEF EvidenceInv, EvidenceTypeOK, Load, At
  <2>2. observed \in Known /\ observed = runs[id].read.seen
    BY <1>2, <2>1 DEF EvidenceInv, EvidenceTypeOK, Parts, Known
  <2>3. Set(id, run) /\ UNCHANGED <<package, files, summary, edits>>
    BY <1>2 DEF Load
  <2> HIDE DEF observed
  <2>4. run \in RunRecord /\ run.at <= Len(run.targets) /\ MemoryOf(run)
    BY <2>1, <2>2 DEF RunRecord, Read, Steps, MemoryOf, Matched, Loaded
  <2> HIDE DEF run
  <2>5. QED
    BY <2>3, <2>4, RunKeepsInv
<1>3. QED
  BY <1>1, <1>2 DEF Load

LEMMA ImportStep ==
  ASSUME EvidenceInv, NEW id \in Ids, Import(id)
  PROVE  EvidenceInv'
<1>1. CASE Fail(id)
  BY <1>1, FailKeepsInv DEF Import
<1>2. CASE Set(id, [runs[id] EXCEPT !.step = "execute", !.read.ran = package[Target(id)].source])
  <2> DEFINE imported == package[Target(id)].source
             run == [runs[id] EXCEPT !.step = "execute", !.read.ran = imported]
  <2>1. /\ runs[id] \in RunRecord /\ runs[id].at <= Len(runs[id].targets)
        /\ Target(id) \in Packages /\ MemoryOf(runs[id]) /\ runs[id].step = "import"
    BY RunType DEF EvidenceInv, EvidenceTypeOK, Import, At
  <2>2. imported \in Known
    BY <2>1 DEF EvidenceInv, EvidenceTypeOK, Parts, Known
  <2>3. Set(id, run) /\ UNCHANGED <<package, files, summary, edits>>
    BY <1>2 DEF Import
  <2> HIDE DEF imported
  <2>4. run \in RunRecord /\ run.at <= Len(run.targets) /\ MemoryOf(run)
    BY <2>1, <2>2 DEF RunRecord, Read, Steps, MemoryOf, Matched, Loaded
  <2> HIDE DEF run
  <2>5. QED
    BY <2>3, <2>4, RunKeepsInv
<1>3. QED
  BY <1>1, <1>2 DEF Import

LEMMA ExecuteStep ==
  ASSUME EvidenceInv, NEW id \in Ids, Execute(id)
  PROVE  EvidenceInv'
<1>1. CASE Fail(id)
  BY <1>1, FailKeepsInv DEF Execute
<1>2. CASE Set(id, [runs[id] EXCEPT !.step = "open", !.file = 1])
  <2> DEFINE run == [runs[id] EXCEPT !.step = "open", !.file = 1]
  <2>1. /\ runs[id] \in RunRecord /\ runs[id].at <= Len(runs[id].targets)
        /\ MemoryOf(runs[id]) /\ runs[id].step = "execute"
    BY RunType DEF EvidenceInv, EvidenceTypeOK, Execute, At
  <2>2. 1 \in DOMAIN Files
    BY DEF Files
  <2>3. Set(id, run) /\ UNCHANGED <<package, files, summary, edits>>
    BY <1>2 DEF Execute
  <2>4. run \in RunRecord /\ run.at <= Len(run.targets) /\ MemoryOf(run)
    BY <2>1, <2>2 DEF RunRecord, Steps, MemoryOf, Matched, Loaded
  <2> HIDE DEF run
  <2>5. QED
    BY <2>3, <2>4, RunKeepsInv
<1>3. QED
  BY <1>1, <1>2 DEF Execute

(* The host of a container only records what it answered its caller.        *)
LEMMA HostStep ==
  ASSUME EvidenceInv, NEW id \in Ids, HostReturns(id) \/ HostTimeout(id)
  PROVE  EvidenceInv'
<1>1. PICK answer \in {"succeeded"} \cup HostCodes :
         Set(id, [runs[id] EXCEPT !.host = answer])
  BY DEF HostReturns, HostTimeout, HostCodes
<1> DEFINE run == [runs[id] EXCEPT !.host = answer]
<1>2. /\ runs[id] \in RunRecord /\ runs[id].at <= Len(runs[id].targets)
      /\ MemoryOf(runs[id])
  BY RunType DEF EvidenceInv, EvidenceTypeOK
<1>3. run \in RunRecord /\ run.at <= Len(run.targets) /\ MemoryOf(run)
  BY <1>2 DEF RunRecord, MemoryOf, Matched
<1>4. Set(id, run) /\ UNCHANGED <<package, files, summary, edits>>
  BY <1>1 DEF HostReturns, HostTimeout
<1> HIDE DEF run
<1>5. QED
  BY <1>3, <1>4, RunKeepsInv

LEMMA CrashStep ==
  ASSUME EvidenceInv, NEW id \in Ids, Crash(id)
  PROVE  EvidenceInv'
<1>1. PICK end \in EndStates : Set(id, Over(runs[id], end))
  BY DEF Crash, EndStates
<1>2. runs[id] \in RunRecord /\ runs[id].at <= Len(runs[id].targets)
  BY RunType DEF EvidenceInv, EvidenceTypeOK
<1>3. QED
  BY <1>1, <1>2, OverIsRun, RunKeepsInv DEF Crash

LEMMA BundleMismatchStep ==
  ASSUME EvidenceInv, NEW id \in Ids, BundleMismatch(id)
  PROVE  EvidenceInv'
BY FailKeepsInv DEF BundleMismatch

-----------------------------------------------------------------------------
(* A step of a run that leaves one file of its package in another state.    *)
LEMMA FileKeepsInv ==
  ASSUME EvidenceInv, NEW id \in Ids, NEW run \in RunRecord,
         run.at <= Len(run.targets), MemoryOf(run), Set(id, run),
         NEW p \in Packages, NEW f \in FileNames, NEW content \in FileRecord,
         content.run <= Len(runs), FileOf(p, content),
         files' = [files EXCEPT ![p][f] = content],
         UNCHANGED <<package, summary, edits>>
  PROVE  EvidenceInv'
<1>1. files \in [Packages -> [FileNames -> FileRecord]]
  BY DEF EvidenceInv, EvidenceTypeOK
<1>2. files' \in [Packages -> [FileNames -> FileRecord]]
  BY <1>1
<1>3. \A q \in Packages, g \in FileNames :
         files'[q][g] = IF q = p /\ g = f THEN content ELSE files[q][g]
  BY <1>1
<1>4. \A q \in Packages, g \in FileNames :
         files'[q][g].run <= Len(runs) /\ FileOf(q, files'[q][g])
  BY <1>3 DEF EvidenceInv, EvidenceTypeOK
<1>5. /\ runs' \in Seq(RunRecord) /\ Len(runs') = Len(runs) /\ Ids' = Ids
      /\ \A j \in Ids' : runs'[j].at <= Len(runs'[j].targets) /\ MemoryOf(runs'[j])
  BY OneRun
<1>6. QED
  BY <1>2, <1>4, <1>5 DEF EvidenceInv, EvidenceTypeOK

LEMMA OpenFileStep ==
  ASSUME EvidenceInv, NEW id \in Ids, OpenFile(id)
  PROVE  EvidenceInv'
<1> DEFINE run == [runs[id] EXCEPT !.step = "close"]
           file == Files[runs[id].file]
           content == IF SharesFile(id, file) THEN Torn ELSE Opened(id)
<1>1. /\ runs[id] \in RunRecord /\ runs[id].at <= Len(runs[id].targets)
      /\ MemoryOf(runs[id]) /\ runs[id].step = "open"
      /\ Target(id) \in Packages /\ file \in FileNames
      /\ id \in Nat /\ id <= Len(runs)
  BY RunType DEF EvidenceInv, EvidenceTypeOK, OpenFile, At
<1>2. run \in RunRecord /\ run.at <= Len(run.targets) /\ MemoryOf(run)
  BY <1>1 DEF RunRecord, Steps, MemoryOf, Matched, Loaded
<1>3. content \in FileRecord
  BY <1>1, FixedFiles
<1>4. Len(runs) \in Nat
  BY DEF EvidenceInv, EvidenceTypeOK
<1>5. content.run <= Len(runs) /\ FileOf(Target(id), content)
  BY <1>1, <1>4 DEF Torn, Opened, File, FileOf, Matched
<1>6. /\ Set(id, run) /\ UNCHANGED <<package, summary, edits>>
      /\ files' = [files EXCEPT ![Target(id)][file] = content]
  BY DEF OpenFile
<1> HIDE DEF run, file, content
<1>7. QED
  BY <1>1, <1>2, <1>3, <1>5, <1>6, FileKeepsInv

(* What a run is after it wrote a file.                                     *)
LEMMA AfterFileIsRun ==
  ASSUME NEW run \in RunRecord, run.at <= Len(run.targets), MemoryOf(run),
         run.step = "close"
  PROVE  /\ AfterFile(run) \in RunRecord /\ MemoryOf(AfterFile(run))
         /\ AfterFile(run).at <= Len(AfterFile(run).targets)
<1>1. Len(run.targets) \in Nat /\ run.at \in Nat \ {0}
  BY DEF RunRecord
<1>2. NotRead \in Read /\ 1 \in DOMAIN Files
  BY NotReadType DEF Files
<1>3. CASE run.file < Len(Files)
  <2> DEFINE next == [run EXCEPT !.step = "open", !.file = @ + 1]
  <2>1. run.file + 1 \in DOMAIN Files
    BY <1>3 DEF RunRecord, Files
  <2>2. next \in RunRecord
    BY <2>1 DEF RunRecord, Steps
  <2>3. MemoryOf(next) /\ next.at <= Len(next.targets)
    BY DEF MemoryOf, Matched, Loaded, RunRecord
  <2>4. AfterFile(run) = next
    BY <1>3 DEF AfterFile
  <2> HIDE DEF next
  <2>5. QED
    BY <2>2, <2>3, <2>4
<1>4. CASE ~(run.file < Len(Files)) /\ run.at < Len(run.targets)
  <2> DEFINE next == [run EXCEPT !.step = "dataset", !.at = @ + 1, !.file = 1, !.read = NotRead]
  <2>1. run.at + 1 \in Nat \ {0} /\ run.at + 1 <= Len(run.targets)
    BY <1>1, <1>4
  <2>2. next \in RunRecord
    BY <1>2, <2>1 DEF RunRecord, Steps
  <2>3. MemoryOf(next) /\ next.at <= Len(next.targets)
    BY <2>1 DEF MemoryOf, Matched, Loaded, RunRecord
  <2>4. AfterFile(run) = next
    BY <1>4 DEF AfterFile, AfterPackage
  <2> HIDE DEF next
  <2>5. QED
    BY <2>2, <2>3, <2>4
<1>5. CASE /\ ~(run.file < Len(Files)) /\ ~(run.at < Len(run.targets))
           /\ run.command = "demo"
  <2> DEFINE next == [run EXCEPT !.step = "summary"]
  <2>1. next \in RunRecord
    BY DEF RunRecord, Steps
  <2>2. MemoryOf(next) /\ next.at <= Len(next.targets)
    BY DEF MemoryOf, Matched, Loaded, RunRecord
  <2>3. AfterFile(run) = next
    BY <1>5 DEF AfterFile, AfterPackage
  <2> HIDE DEF next
  <2>4. QED
    BY <2>1, <2>2, <2>3
<1>6. CASE /\ ~(run.file < Len(Files)) /\ ~(run.at < Len(run.targets))
           /\ run.command # "demo"
  <2>1. AfterFile(run) = Over(run, "succeeded")
    BY <1>6 DEF AfterFile, AfterPackage
  <2>2. QED
    BY <2>1, OverIsRun DEF EndStates
<1>7. QED
  BY <1>3, <1>4, <1>5, <1>6

LEMMA CloseFileStep ==
  ASSUME EvidenceInv, NEW id \in Ids, CloseFile(id)
  PROVE  EvidenceInv'
<1> DEFINE run == AfterFile(runs[id])
           file == Files[runs[id].file]
           whole == File("whole", id, runs[id].read)
<1>1. /\ runs[id] \in RunRecord /\ runs[id].at <= Len(runs[id].targets)
      /\ MemoryOf(runs[id]) /\ runs[id].step = "close"
      /\ Target(id) \in Packages /\ file \in FileNames
      /\ id \in Nat /\ id <= Len(runs)
  BY RunType DEF EvidenceInv, EvidenceTypeOK, CloseFile, At
<1>2. run \in RunRecord /\ run.at <= Len(run.targets) /\ MemoryOf(run)
  BY <1>1, AfterFileIsRun
<1>3. PICK content \in {whole, Torn} :
         files' = [files EXCEPT ![Target(id)][file] = content]
  BY DEF CloseFile
<1>4. runs[id].read \in Read
  BY <1>1 DEF RunRecord
<1>5. content \in FileRecord
  BY <1>1, <1>4, FixedFiles
<1>6. Len(runs) \in Nat
  BY DEF EvidenceInv, EvidenceTypeOK
<1>7. content.run <= Len(runs) /\ FileOf(Target(id), content)
  BY <1>1, <1>6 DEF Torn, File, FileOf, Matched, MemoryOf, Loaded, Target
<1>8. Set(id, run) /\ UNCHANGED <<package, summary, edits>>
  BY DEF CloseFile
<1> HIDE DEF run, file, whole
<1>9. QED
  BY <1>1, <1>2, <1>3, <1>5, <1>7, <1>8, FileKeepsInv

LEMMA WriteSummaryStep ==
  ASSUME EvidenceInv, NEW id \in Ids, WriteSummary(id)
  PROVE  EvidenceInv'
<1> DEFINE run == Over(runs[id], "succeeded")
<1>1. runs[id] \in RunRecord /\ runs[id].at <= Len(runs[id].targets)
  BY RunType DEF EvidenceInv, EvidenceTypeOK
<1>2. run \in RunRecord /\ run.at <= Len(run.targets) /\ MemoryOf(run)
  BY <1>1, OverIsRun DEF EndStates
<1>3. Set(id, run) /\ summary' = id /\ UNCHANGED <<package, files, edits>>
  BY DEF WriteSummary
<1> HIDE DEF run
<1>4. /\ runs' \in Seq(RunRecord) /\ Len(runs') = Len(runs) /\ Ids' = Ids
      /\ \A j \in Ids' : runs'[j].at <= Len(runs'[j].targets) /\ MemoryOf(runs'[j])
  BY <1>2, <1>3, OneRun
<1>5. QED
  BY <1>3, <1>4 DEF EvidenceInv, EvidenceTypeOK

-----------------------------------------------------------------------------
(* The next command starts with nothing read and nothing written.           *)
LEMMA NewRunIsRun ==
  ASSUME NEW invocation \in Invocations
  PROVE  /\ NewRun(invocation) \in RunRecord /\ MemoryOf(NewRun(invocation))
         /\ NewRun(invocation).at <= Len(NewRun(invocation).targets)
<1>1. NothingSeen \in [Packages -> Known] /\ NotRead \in Read
  BY NotReadType DEF NothingSeen, Known
<1>2. 1 \in DOMAIN Files /\ 1 \in Nat \ {0}
  BY DEF Files
<1>3. /\ invocation.command \in Commands /\ invocation.attested \in BOOLEAN
      /\ invocation.targets \in Seq(Packages) /\ Len(invocation.targets) > 0
  BY InvocationType
<1>4. Len(invocation.targets) \in Nat
  BY <1>3
<1>5. NewRun(invocation) \in RunRecord
  BY <1>1, <1>2, <1>3 DEF NewRun, RunRecord, Steps
<1>6. MemoryOf(NewRun(invocation))
  BY DEF NewRun, MemoryOf, Matched, Loaded
<1>7. NewRun(invocation).at = 1 /\ NewRun(invocation).targets = invocation.targets
  BY DEF NewRun
<1>8. QED
  BY <1>3, <1>4, <1>5, <1>6, <1>7

LEMMA StartStep ==
  ASSUME EvidenceInv, Start
  PROVE  EvidenceInv'
<1>1. PICK invocation \in Invocations : runs' = Append(runs, NewRun(invocation))
  BY DEF Start
<1> DEFINE new == NewRun(invocation)
<1>2. new \in RunRecord /\ MemoryOf(new) /\ new.at <= Len(new.targets)
  BY NewRunIsRun
<1>3. /\ runs \in Seq(RunRecord) /\ Len(runs) \in Nat /\ Ids = 1..Len(runs)
      /\ Len(runs) < MaxRuns /\ MaxRuns \in Nat
  BY EvidenceAssumption DEF EvidenceInv, EvidenceTypeOK, Ids, Start
<1> HIDE DEF new
<1>4. /\ runs' \in Seq(RunRecord) /\ Len(runs') = Len(runs) + 1
      /\ \A i \in 1..Len(runs) : runs'[i] = runs[i]
      /\ runs'[Len(runs) + 1] = new
  BY <1>1, <1>2, <1>3, AppendProperties DEF new
<1>5. Ids' = 1..(Len(runs) + 1)
  BY <1>4, LenProperties DEF Ids
<1>6. \A j \in Ids' : runs'[j].at <= Len(runs'[j].targets) /\ MemoryOf(runs'[j])
  <2>1. SUFFICES ASSUME NEW j \in Ids'
                 PROVE  runs'[j].at <= Len(runs'[j].targets) /\ MemoryOf(runs'[j])
    OBVIOUS
  <2>2. CASE j = Len(runs) + 1
    BY <1>2, <1>4, <2>2
  <2>3. CASE j # Len(runs) + 1
    <3>1. j \in Ids /\ runs'[j] = runs[j]
      BY <1>3, <1>4, <1>5, <2>3
    <3>2. QED
      BY <3>1 DEF EvidenceInv, EvidenceTypeOK
  <2>4. QED
    BY <2>2, <2>3
<1>7. UNCHANGED <<package, files, summary, edits>>
  BY DEF Start
<1>8. \A p \in Packages, f \in FileNames : files[p][f].run \in Nat
  BY DEF EvidenceInv, EvidenceTypeOK, FileRecord
<1>9. /\ \A p \in Packages, f \in FileNames : files[p][f].run <= Len(runs')
      /\ summary \in {0} \cup Ids'
  BY <1>3, <1>4, <1>5, <1>8 DEF EvidenceInv, EvidenceTypeOK
<1>10. Len(runs') <= MaxRuns
  BY <1>3, <1>4
<1>11. QED
  BY <1>4, <1>6, <1>7, <1>9, <1>10 DEF EvidenceInv, EvidenceTypeOK

(* What a run read is its own; an edit does not reach it.                   *)
LEMMA EditStep ==
  ASSUME EvidenceInv, Edit
  PROVE  EvidenceInv'
<1>1. PICK target \in Editable, version \in Versions :
         package' = [package EXCEPT ![target[1]][target[2]] = version]
  BY DEF Edit
<1>2. target[1] \in Packages /\ target[2] \in Parts
  BY EvidenceAssumption
<1>3. package' \in [Packages -> [Parts -> Versions]]
  BY <1>1, <1>2 DEF EvidenceInv, EvidenceTypeOK
<1>4. edits' \in 0..MaxEdits
  BY EvidenceAssumption DEF EvidenceInv, EvidenceTypeOK, Edit
<1>5. UNCHANGED <<files, summary, runs>>
  BY DEF Edit
<1>6. QED
  BY <1>3, <1>4, <1>5 DEF EvidenceInv, EvidenceTypeOK, Ids, MemoryOf, Matched, FileOf

-----------------------------------------------------------------------------
LEMMA EvidenceStart == Init => EvidenceInv
<1> SUFFICES ASSUME Init PROVE EvidenceInv
  OBVIOUS
<1>1. package \in [Packages -> [Parts -> Versions]]
  BY DEF Init, Versions
<1>2. /\ files \in [Packages -> [FileNames -> FileRecord]]
      /\ \A p \in Packages, f \in FileNames : files[p][f] = Absent
  BY FixedFiles DEF Init
<1>3. Absent.run = 0 /\ \A p \in Packages : FileOf(p, Absent)
  BY DEF Absent, File, FileOf, Matched
<1>4. runs = <<>> /\ runs \in Seq(RunRecord) /\ Len(runs) = 0 /\ Ids = {}
  BY DEF Init, Ids
<1>5. edits \in 0..MaxEdits /\ summary = 0 /\ 0 <= MaxRuns
  BY EvidenceAssumption DEF Init
<1>6. QED
  BY <1>1, <1>2, <1>3, <1>4, <1>5 DEF EvidenceInv, EvidenceTypeOK

LEMMA EvidenceStep == EvidenceInv /\ [Next]_vars => EvidenceInv'
<1> SUFFICES ASSUME EvidenceInv, [Next]_vars PROVE EvidenceInv'
  OBVIOUS
<1>1. CASE Start
  BY <1>1, StartStep
<1>2. CASE Edit
  BY <1>2, EditStep
<1>3. ASSUME NEW id \in Ids, Process(id) PROVE EvidenceInv'
  BY <1>3, DiscoverStep, ReadDatasetStep, ReadEventsStep, LoadStep, ImportStep, ExecuteStep,
     OpenFileStep, CloseFileStep, BundleMismatchStep, WriteSummaryStep DEF Process
<1>4. ASSUME NEW id \in Ids, HostReturns(id) \/ HostTimeout(id) \/ Crash(id)
      PROVE  EvidenceInv'
  BY <1>4, HostStep, CrashStep
<1>5. CASE UNCHANGED vars
  BY <1>5 DEF vars, EvidenceInv, EvidenceTypeOK, Ids, MemoryOf, Matched, FileOf
<1>6. QED
  BY <1>1, <1>2, <1>3, <1>4, <1>5 DEF Next

LEMMA EvidenceAlways == Spec => []EvidenceInv
BY EvidenceStart, EvidenceStep, PTL DEF Spec

(* Types, for any packages and any number of commands: every command is at a *)
(* step of its program and at one of its packages, every file is in one of  *)
(* its states and of a command that was started (cli.py, report.py).        *)
THEOREM EvidenceTypes == Spec => []EvidenceTypeOK
<1>1. EvidenceInv => EvidenceTypeOK
  BY DEF EvidenceInv
<1>2. QED
  BY <1>1, EvidenceAlways, PTL

(* A bundle the verifier accepts is of a run that imported the source the   *)
(* package has now and decided on the events its dataset declares, unless   *)
(* the source was written between its second evidence and its import or the *)
(* dataset has several streams (package.py:126, cli.py:246, verify.py:289): *)
(* for any interleaving of commands, edits, crashes and containers that     *)
(* outlive their clients.                                                   *)
THEOREM AcceptedRanCurrent == Spec => []VerifiedRanCurrentSource
<1>1. EvidenceInv => VerifiedRanCurrentSource
  <2>1. SUFFICES ASSUME EvidenceInv, NEW p \in Packages, Verified(p)
                 PROVE  /\ files[p]["bundle"].read.checked = files[p]["bundle"].read.ran =>
                              files[p]["bundle"].read.ran = package[p].source
                        /\ Matched(p, files[p]["bundle"].read)
    BY DEF VerifiedRanCurrentSource, Matched
  <2>2. "bundle" \in FileNames
    BY DEF FileNames, Files
  <2>3. /\ files[p]["bundle"].state = "whole" /\ FileOf(p, files[p]["bundle"])
        /\ files[p]["bundle"].read.seen = package[p].source
    BY <2>1, <2>2 DEF Verified, EvidenceInv
  <2>4. QED
    BY <2>3 DEF FileOf, Matched
<1>2. QED
  BY <1>1, EvidenceAlways, PTL
-----------------------------------------------------------------------------
(* Commands one at a time.  As long as no container outlived its client,    *)
(* one command at most is live, the last one started, and what it wrote of  *)
(* a package and did not yet finish is its own, file by file.               *)
NoTimeout == \A id \in Ids : ~TimedOut(id)

(* A host that has answered, but for a timeout, answers for a container     *)
(* that has ended.                                                          *)
RunShape(run) ==
    /\ run.command = "sandbox" =>
         /\ run.host # None
         /\ run.step \in Steps => run.host \in {"waiting", "SANDBOX_TIMEOUT"}
    /\ run.command = "demo" => run.targets = PackageOrder
    /\ run.step = "summary" => run.command = "demo"
    /\ \A i, j \in DOMAIN run.targets : run.targets[i] = run.targets[j] => i = j

InHand(id, p) ==
    Writing(id) /\ Target(id) = p /\ (runs[id].file > 1 \/ runs[id].step = "close")

WrittenOf(id, p) ==
    /\ \A i \in DOMAIN Files : i < runs[id].file =>
         files[p][Files[i]] = File("whole", id, runs[id].read)
    /\ runs[id].step = "close" => files[p][Files[runs[id].file]] = Opened(id)

(* Otherwise the files of a package are of one run, or the bundle is not    *)
(* whole, or a run was cut off.                                             *)
Settled(p) ==
    \/ files[p]["bundle"].state # "whole"
    \/ \A f \in FileNames : files[p][f] = files[p]["bundle"]
    \/ \E id \in Ids : CutOff(id, p)

(* A live command has not written the bundles that are still to come, and   *)
(* has written every file of the packages it is done with.                  *)
Finished(run) == run.step = "summary"
AtBundle(run) == run.step = "close" /\ run.file = Len(Files)

FreshOf(id) ==
    \A j \in DOMAIN runs[id].targets :
        j > runs[id].at \/ (j = runs[id].at /\ ~Finished(runs[id]) /\ ~AtBundle(runs[id])) =>
            files[runs[id].targets[j]]["bundle"].run # id

DoneOf(id) ==
    \A j \in DOMAIN runs[id].targets :
        j < runs[id].at \/ Finished(runs[id]) =>
            \A f \in FileNames : files[runs[id].targets[j]][f].run = id

OneAtATime ==
    \A id \in Ids : Live(id) => id = Len(runs) /\ FreshOf(id) /\ DoneOf(id)
InHandIsOwn ==
    \A p \in Packages, id \in Ids : InHand(id, p) => WrittenOf(id, p)
SettledOrInHand ==
    \A p \in Packages : Settled(p) \/ \E id \in Ids : InHand(id, p)
SummaryIsOld ==
    summary # 0 => \A p \in Packages, f \in FileNames : files[p][f].run >= summary

Serial == OneAtATime /\ InHandIsOwn /\ SettledOrInHand /\ SummaryIsOld
SerialInv == NoTimeout => Serial

ShapeInv == \A id \in Ids : RunShape(runs[id])

-----------------------------------------------------------------------------
(* What the steps do to the run they are about, in eight kinds.             *)
Keeps(new, old) ==
    new.command = old.command /\ new.targets = old.targets /\ new.host = old.host

Reading == {"discover", "dataset", "events", "load", "import", "execute"}

ReadsOn(id) ==
    /\ runs[id].step \in Reading
    /\ \E run \in RunRecord :
         /\ Set(id, run) /\ Keeps(run, runs[id]) /\ run.at = runs[id].at
         /\ run.step \in Reading \/ (run.step = "open" /\ run.file = 1)
    /\ UNCHANGED <<files, summary>>

CutsOff(id) ==
    /\ Live(id)
    /\ \E end \in {"failed", "killed"} : Set(id, Over(runs[id], end))
    /\ UNCHANGED <<files, summary>>

Answers(id) ==
    /\ runs[id].host = "waiting"
    /\ \E answer \in {"succeeded"} \cup HostCodes :
         /\ Set(id, [runs[id] EXCEPT !.host = answer])
         /\ Live(id) => answer = "SANDBOX_TIMEOUT"
    /\ UNCHANGED <<files, summary>>

LEMMA FailCutsOff ==
  ASSUME NEW id \in Ids, Live(id), Fail(id), UNCHANGED <<files, summary>>
  PROVE  CutsOff(id)
BY DEF Fail, CutsOff

LEMMA SetIsRun ==
  ASSUME EvidenceInv, EvidenceInv', NEW id \in Ids, NEW run, Set(id, run)
  PROVE  run \in RunRecord
<1>1. runs \in Seq(RunRecord) /\ id \in 1..Len(runs) /\ runs' \in Seq(RunRecord)
  BY DEF EvidenceInv, EvidenceTypeOK, Ids
<1>2. runs' = [runs EXCEPT ![id] = run]
  BY DEF Set
<1>3. DOMAIN runs = 1..Len(runs) /\ DOMAIN runs' = 1..Len(runs') /\ DOMAIN runs' = DOMAIN runs
  BY <1>1, <1>2
<1>4. runs'[id] \in RunRecord /\ runs'[id] = run
  BY <1>1, <1>2, <1>3, ElementOfSeq
<1>5. QED
  BY <1>4

LEMMA ReadsOnIf ==
  ASSUME EvidenceInv, EvidenceInv', NEW id \in Ids, runs[id].step \in Reading,
         UNCHANGED <<files, summary>>, NEW run, Set(id, run),
         Keeps(run, runs[id]), run.at = runs[id].at,
         run.step \in Reading \/ (run.step = "open" /\ run.file = 1)
  PROVE  ReadsOn(id)
BY SetIsRun DEF ReadsOn

LEMMA ReadsOnOrCutsOff ==
  ASSUME EvidenceInv, NEW id \in Ids,
         \/ RefuseStart(id) \/ Discover(id) \/ ReadDataset(id) \/ ReadEvents(id)
         \/ Load(id) \/ Import(id) \/ Execute(id) \/ BundleMismatch(id) \/ Crash(id)
  PROVE  ReadsOn(id) \/ CutsOff(id)
<1>1. Fail(id) /\ Live(id) /\ UNCHANGED <<files, summary>> => CutsOff(id)
  BY FailCutsOff
<1>2. EvidenceInv' /\ runs[id] \in RunRecord
  BY RunType, DiscoverStep, ReadDatasetStep, ReadEventsStep, LoadStep, ImportStep, ExecuteStep,
     BundleMismatchStep, CrashStep
<1>4. CASE RefuseStart(id) \/ BundleMismatch(id)
  BY <1>1, <1>4 DEF RefuseStart, BundleMismatch, At
<1>5. CASE Crash(id)
  BY <1>5 DEF Crash, CutsOff
<1>6. CASE Discover(id)
  <2>1. PICK x : Set(id, [runs[id] EXCEPT !.step = "dataset", !.seen = x])
    BY <1>6 DEF Discover
  <2> DEFINE run == [runs[id] EXCEPT !.step = "dataset", !.seen = x]
  <2>2. runs[id].step \in Reading /\ UNCHANGED <<files, summary>>
    BY <1>6 DEF Discover, At, Reading
  <2>3. Keeps(run, runs[id]) /\ run.at = runs[id].at /\ run.step \in Reading
    BY <1>2 DEF RunRecord, Keeps, Reading
  <2>4. Set(id, run)
    BY <2>1
  <2> HIDE DEF run
  <2>5. QED
    BY <1>2, <2>2, <2>3, <2>4, ReadsOnIf
<1>7. CASE ReadDataset(id)
  <2>1. PICK x : Set(id, [runs[id] EXCEPT !.step = "events", !.read = x])
    BY <1>7 DEF ReadDataset
  <2> DEFINE run == [runs[id] EXCEPT !.step = "events", !.read = x]
  <2>2. runs[id].step \in Reading /\ UNCHANGED <<files, summary>>
    BY <1>7 DEF ReadDataset, At, Reading
  <2>3. Keeps(run, runs[id]) /\ run.at = runs[id].at /\ run.step \in Reading
    BY <1>2 DEF RunRecord, Keeps, Reading
  <2>4. Set(id, run)
    BY <2>1
  <2> HIDE DEF run
  <2>5. QED
    BY <1>2, <2>2, <2>3, <2>4, ReadsOnIf
<1>8. ASSUME NEW next \in {"load", "import", "execute"}, NEW read,
             Set(id, [runs[id] EXCEPT !.step = next, !.read = read]),
             runs[id].step \in Reading, UNCHANGED <<files, summary>>
      PROVE  ReadsOn(id)
  <2> DEFINE run == [runs[id] EXCEPT !.step = next, !.read = read]
  <2>1. Keeps(run, runs[id]) /\ run.at = runs[id].at /\ run.step \in Reading
    BY <1>2 DEF RunRecord, Keeps, Reading
  <2>2. Set(id, run)
    BY <1>8
  <2> HIDE DEF run
  <2>3. QED
    BY <1>2, <1>8, <2>1, <2>2, ReadsOnIf
<1>9. CASE ReadEvents(id) \/ Load(id) \/ Import(id)
  <2>1. Live(id) /\ runs[id].step \in Reading /\ UNCHANGED <<files, summary>>
    BY <1>9 DEF ReadEvents, Load, Import, At, Reading
  <2>2. Fail(id) \/ \E next \in {"load", "import", "execute"} : \E read :
                       Set(id, [runs[id] EXCEPT !.step = next, !.read = read])
    <3>1. CASE ReadEvents(id)
      <4>1. \A events : [runs[id] EXCEPT !.step = "load", !.read.events = events] =
                        [runs[id] EXCEPT !.step = "load",
                                         !.read = [runs[id].read EXCEPT !.events = events]]
        BY <1>2 DEF RunRecord
      <4>2. QED
        BY <3>1, <4>1 DEF ReadEvents
    <3>2. CASE Load(id)
      <4>1. \A c : [runs[id] EXCEPT !.step = "import", !.read.checked = c] =
                   [runs[id] EXCEPT !.step = "import",
                                    !.read = [runs[id].read EXCEPT !.checked = c]]
        BY <1>2 DEF RunRecord
      <4>2. QED
        BY <3>2, <4>1 DEF Load
    <3>3. CASE Import(id)
      <4>1. \A c : [runs[id] EXCEPT !.step = "execute", !.read.ran = c] =
                   [runs[id] EXCEPT !.step = "execute",
                                    !.read = [runs[id].read EXCEPT !.ran = c]]
        BY <1>2 DEF RunRecord
      <4>2. QED
        BY <3>3, <4>1 DEF Import
    <3>4. QED
      BY <1>9, <3>1, <3>2, <3>3
  <2>3. QED
    BY <1>1, <1>8, <2>1, <2>2
<1>10. CASE Execute(id)
  <2> DEFINE run == [runs[id] EXCEPT !.step = "open", !.file = 1]
  <2>1. /\ Live(id) /\ runs[id].step \in Reading /\ UNCHANGED <<files, summary>>
        /\ Fail(id) \/ Set(id, run)
    BY <1>10 DEF Execute, At, Reading
  <2>2. /\ Keeps(run, runs[id]) /\ run.at = runs[id].at /\ run.step = "open" /\ run.file = 1
    BY <1>2 DEF RunRecord, Keeps
  <2> HIDE DEF run
  <2>3. QED
    BY <1>1, <1>2, <2>1, <2>2, ReadsOnIf
<1>11. QED
  BY <1>4, <1>5, <1>6, <1>7, <1>9, <1>10

LEMMA HostAnswers ==
  ASSUME NEW id \in Ids, HostReturns(id) \/ HostTimeout(id)
  PROVE  Answers(id)
BY DEF HostReturns, HostTimeout, HostCodes, Answers

(* A step as one of these, with the invariant before and after it.          *)
LEMMA StepKinds ==
  ASSUME EvidenceInv, [Next]_vars
  PROVE  \/ Start
         \/ UNCHANGED <<files, summary, runs>>
         \/ \E id \in Ids : \/ ReadsOn(id) \/ CutsOff(id) \/ Answers(id)
                            \/ OpenFile(id) \/ CloseFile(id) \/ WriteSummary(id)
<1>1. ASSUME NEW id \in Ids, Process(id) \/ Crash(id)
      PROVE  \/ ReadsOn(id) \/ CutsOff(id)
             \/ OpenFile(id) \/ CloseFile(id) \/ WriteSummary(id)
  BY <1>1, ReadsOnOrCutsOff DEF Process
<1>2. CASE Edit \/ UNCHANGED vars
  BY <1>2 DEF Edit, vars
<1>3. QED
  BY <1>1, <1>2, HostAnswers DEF Next

-----------------------------------------------------------------------------
LEMMA SetRun ==
  ASSUME EvidenceInv, NEW id \in Ids, NEW run, Set(id, run)
  PROVE  /\ Ids' = Ids /\ Len(runs') = Len(runs) /\ runs'[id] = run
         /\ \A j \in Ids : j # id => runs'[j] = runs[j]
<1>1. runs \in Seq(RunRecord) /\ id \in 1..Len(runs) /\ Ids = 1..Len(runs)
  BY DEF EvidenceInv, EvidenceTypeOK, Ids
<1>2. runs' = [runs EXCEPT ![id] = run]
  BY DEF Set
<1>3. Len(runs') = Len(runs) /\ DOMAIN runs' = DOMAIN runs
  BY <1>1, <1>2
<1>4. QED
  BY <1>1, <1>2, <1>3 DEF Ids

(* The run a command goes on with, ends with or answers with.               *)
LEMMA StartedRun ==
  ASSUME EvidenceInv, Start
  PROVE  \E invocation \in Invocations :
           /\ runs'[Len(runs) + 1] = NewRun(invocation)
           /\ Ids = 1..Len(runs) /\ Ids' = 1..(Len(runs) + 1) /\ Len(runs') = Len(runs) + 1
           /\ \A j \in Ids : runs'[j] = runs[j]
<1>1. PICK invocation \in Invocations : runs' = Append(runs, NewRun(invocation))
  BY DEF Start
<1>2. NewRun(invocation) \in RunRecord
  BY NewRunIsRun
<1>3. /\ runs \in Seq(RunRecord) /\ Len(runs) \in Nat /\ Ids = 1..Len(runs)
  BY DEF EvidenceInv, EvidenceTypeOK, Ids
<1>4. /\ runs' \in Seq(RunRecord) /\ Len(runs') = Len(runs) + 1
      /\ \A i \in 1..Len(runs) : runs'[i] = runs[i]
      /\ runs'[Len(runs) + 1] = NewRun(invocation)
  BY <1>1, <1>2, <1>3, AppendProperties
<1>5. Ids' = 1..(Len(runs) + 1)
  BY <1>4, LenProperties DEF Ids
<1>6. QED
  BY <1>3, <1>4, <1>5

LEMMA TimeoutsStay ==
  ASSUME EvidenceInv, [Next]_vars, NoTimeout'
  PROVE  NoTimeout
<1> SUFFICES ASSUME NEW id \in Ids, TimedOut(id) PROVE FALSE
  BY DEF NoTimeout
<1>1. ASSUME NEW j \in Ids, NEW run, Set(j, run),
             run.host = runs[j].host \/ runs[j].host = "waiting"
      PROVE  FALSE
  <2>1. /\ Ids' = Ids /\ runs'[j] = run /\ \A i \in Ids : i # j => runs'[i] = runs[i]
    BY <1>1, SetRun
  <2>2. TimedOut(id)'
    BY <1>1, <2>1 DEF TimedOut
  <2>3. QED
    BY <2>1, <2>2 DEF NoTimeout
<1>2. CASE Start
  BY <1>2, StartedRun DEF NoTimeout, TimedOut
<1>3. CASE UNCHANGED <<files, summary, runs>>
  BY <1>3 DEF NoTimeout, TimedOut, Ids
<1>4. ASSUME NEW j \in Ids, ReadsOn(j) PROVE FALSE
  BY <1>1, <1>4 DEF ReadsOn, Keeps
<1>5. ASSUME NEW j \in Ids, CutsOff(j) \/ WriteSummary(j) PROVE FALSE
  <2>1. PICK end \in EndStates : Set(j, Over(runs[j], end))
    BY <1>5 DEF CutsOff, WriteSummary, EndStates
  <2>2. Over(runs[j], end).host = runs[j].host
    BY <2>1, RunType, OverIsRun DEF EvidenceInv, EvidenceTypeOK
  <2>3. QED
    BY <1>1, <2>1, <2>2
<1>6. ASSUME NEW j \in Ids, Answers(j) PROVE FALSE
  BY <1>1, <1>6 DEF Answers
<1>7. ASSUME NEW j \in Ids, OpenFile(j) PROVE FALSE
  <2>1. [runs[j] EXCEPT !.step = "close"].host = runs[j].host
    BY RunType DEF RunRecord
  <2>2. QED
    BY <1>1, <1>7, <2>1 DEF OpenFile
<1>8. ASSUME NEW j \in Ids, CloseFile(j) PROVE FALSE
  <2>1. AfterFile(runs[j]).host = runs[j].host
    BY RunType DEF RunRecord, AfterFile, AfterPackage, Over
  <2>2. QED
    BY <1>1, <1>8, <2>1 DEF CloseFile
<1>9. QED
  BY <1>2, <1>3, <1>4, <1>5, <1>6, <1>7, <1>8, StepKinds

-----------------------------------------------------------------------------
LEMMA ShapeOfNew ==
  ASSUME NEW invocation \in Invocations
  PROVE  RunShape(NewRun(invocation))
<1> DEFINE new == NewRun(invocation)
<1>1. /\ new.command = invocation.command /\ new.targets = invocation.targets
      /\ new.step = "discover"
      /\ new.host = IF invocation.command = "sandbox" THEN "waiting" ELSE None
  BY DEF NewRun
<1>2. invocation \in Invocation
  BY EvidenceAssumption
<1>3. /\ invocation.command = "demo" => invocation.targets = PackageOrder
      /\ \A i, j \in DOMAIN invocation.targets :
            invocation.targets[i] = invocation.targets[j] => i = j
  <2>1. CASE \E q \in Packages, a \in BOOLEAN :
               invocation = [command |-> "run", targets |-> <<q>>, attested |-> a]
    <3>1. PICK q : invocation.command = "run" /\ invocation.targets = <<q>>
      BY <2>1
    <3>2. DOMAIN <<q>> = {1}
      OBVIOUS
    <3>3. QED
      BY <3>1, <3>2
  <2>2. CASE \E q \in Packages :
               invocation = [command |-> "sandbox", targets |-> <<q>>, attested |-> TRUE]
    <3>1. PICK q : invocation.command = "sandbox" /\ invocation.targets = <<q>>
      BY <2>2
    <3>2. DOMAIN <<q>> = {1}
      OBVIOUS
    <3>3. QED
      BY <3>1, <3>2
  <2>3. CASE \E a \in BOOLEAN :
               invocation = [command |-> "demo", targets |-> PackageOrder, attested |-> a]
    <3>1. invocation.targets = PackageOrder
      BY <2>3
    <3>2. QED
      BY <3>1, EvidenceAssumption
  <2>4. QED
    BY <1>2, <2>1, <2>2, <2>3 DEF Invocation
<1> HIDE DEF new
<1>4. QED
  BY <1>1, <1>3 DEF RunShape, None, new

LEMMA ShapeOfNext ==
  ASSUME EvidenceInv, NEW id \in Ids, RunShape(runs[id]), NEW run, Keeps(run, runs[id]),
         run.step \in Steps => runs[id].step \in Steps,
         run.step = "summary" => run.command = "demo"
  PROVE  RunShape(run)
BY DEF Keeps, RunShape

LEMMA ShapeStep ==
  ASSUME EvidenceInv, ShapeInv, [Next]_vars
  PROVE  ShapeInv'
<1>1. ASSUME NEW id \in Ids, NEW run, Set(id, run), RunShape(run) PROVE ShapeInv'
  <2>1. /\ Ids' = Ids /\ runs'[id] = run /\ \A j \in Ids : j # id => runs'[j] = runs[j]
    BY <1>1, SetRun
  <2>2. QED
    BY <1>1, <2>1 DEF ShapeInv
<1>2. CASE Start
  <2>1. PICK invocation \in Invocations :
           /\ runs'[Len(runs) + 1] = NewRun(invocation)
           /\ Ids = 1..Len(runs) /\ Ids' = 1..(Len(runs) + 1)
           /\ \A j \in Ids : runs'[j] = runs[j]
    BY <1>2, StartedRun
  <2>2. RunShape(runs'[Len(runs) + 1]) /\ Len(runs) \in Nat
    BY <2>1, ShapeOfNew DEF EvidenceInv, EvidenceTypeOK
  <2>3. \A j \in Ids : RunShape(runs'[j])
    BY <2>1 DEF ShapeInv
  <2>4. \A j \in Ids' : j \in Ids \/ j = Len(runs) + 1
    BY <2>1, <2>2
  <2>5. QED
    BY <2>2, <2>3, <2>4 DEF ShapeInv
<1>3. CASE UNCHANGED <<files, summary, runs>>
  BY <1>3 DEF ShapeInv, Ids
<1>4. ASSUME NEW id \in Ids PROVE RunShape(runs[id]) /\ runs[id] \in RunRecord
  BY <1>4, RunType DEF ShapeInv
<1>5. ASSUME NEW id \in Ids, ReadsOn(id) PROVE ShapeInv'
  <2>1. PICK run : /\ Set(id, run) /\ Keeps(run, runs[id])
                   /\ run.step \in Reading \/ run.step = "open"
    BY <1>5 DEF ReadsOn
  <2>2. runs[id].step \in Steps /\ run.step # "summary"
    BY <1>5, <2>1 DEF ReadsOn, Reading, Steps
  <2>3. QED
    BY <1>1, <1>4, <2>1, <2>2, ShapeOfNext
<1>6. ASSUME NEW id \in Ids, CutsOff(id) \/ WriteSummary(id) PROVE ShapeInv'
  <2>1. PICK end \in EndStates : Set(id, Over(runs[id], end))
    BY <1>6 DEF CutsOff, WriteSummary, EndStates
  <2>2. Keeps(Over(runs[id], end), runs[id]) /\ Over(runs[id], end).step = end
    BY <1>4 DEF Over, Keeps, RunRecord
  <2>3. end \notin Steps /\ end # "summary"
    BY DEF EndStates, Steps
  <2>4. QED
    BY <1>1, <1>4, <2>1, <2>2, <2>3, ShapeOfNext
<1>7. ASSUME NEW id \in Ids, Answers(id) PROVE ShapeInv'
  <2>1. PICK answer \in {"succeeded"} \cup HostCodes :
          /\ Set(id, [runs[id] EXCEPT !.host = answer])
          /\ Live(id) => answer = "SANDBOX_TIMEOUT"
    BY <1>7 DEF Answers
  <2>2. RunShape([runs[id] EXCEPT !.host = answer])
    BY <1>4, <2>1 DEF RunShape, RunRecord, Live, HostCodes, None
  <2>3. QED
    BY <1>1, <2>1, <2>2
<1>8. ASSUME NEW id \in Ids, OpenFile(id) PROVE ShapeInv'
  <2>1. /\ Keeps([runs[id] EXCEPT !.step = "close"], runs[id])
        /\ [runs[id] EXCEPT !.step = "close"].step = "close" /\ runs[id].step \in Steps
    BY <1>4, <1>8 DEF RunRecord, Keeps, OpenFile, At, Live
  <2>2. QED
    BY <1>1, <1>4, <1>8, <2>1, ShapeOfNext DEF OpenFile
<1>9. ASSUME NEW id \in Ids, CloseFile(id) PROVE ShapeInv'
  <2>1. /\ Keeps(AfterFile(runs[id]), runs[id]) /\ runs[id].step \in Steps
        /\ AfterFile(runs[id]).step = "summary" => runs[id].command = "demo"
    BY <1>4, <1>9
    DEF RunRecord, Keeps, CloseFile, At, Live, AfterFile, AfterPackage, Over
  <2>2. QED
    BY <1>1, <1>4, <1>9, <2>1, ShapeOfNext DEF CloseFile, Keeps
<1>10. QED
  BY <1>2, <1>3, <1>5, <1>6, <1>7, <1>8, <1>9, StepKinds

-----------------------------------------------------------------------------
(* The serial invariant, kind of step by kind of step.                      *)
LEMMA SettledStays ==
  ASSUME NEW p \in Packages, Settled(p), files'[p] = files[p], Ids \subseteq Ids',
         \A j \in Ids : ~Live(j) => runs'[j].step = runs[j].step
  PROVE  Settled(p)'
<1>1. CASE \E id \in Ids : CutOff(id, p)
  <2>1. PICK id \in Ids : CutOff(id, p)
    BY <1>1
  <2>2. runs'[id].step = runs[id].step
    BY <2>1 DEF CutOff, Live, Steps
  <2>3. QED
    BY <2>1, <2>2 DEF CutOff, Settled
<1>2. QED
  BY <1>1 DEF Settled

(* A step of the live command leaves the others ended.                      *)
LEMMA OneLive ==
  ASSUME EvidenceInv, OneAtATime, NEW id \in Ids, Live(id), NEW run, Set(id, run)
  PROVE  /\ Ids' = Ids /\ Len(runs') = Len(runs) /\ id = Len(runs) /\ runs'[id] = run
         /\ \A j \in Ids : j # id => runs'[j] = runs[j] /\ ~Live(j)
         /\ \A j \in Ids : ~Live(j) => runs'[j] = runs[j]
         /\ \A j \in Ids' : Live(j)' => j = id
         /\ \A p \in Packages, j \in Ids : InHand(j, p) => j = id
         /\ \A p \in Packages, j \in Ids' : InHand(j, p)' => j = id
<1>1. /\ Ids' = Ids /\ Len(runs') = Len(runs) /\ runs'[id] = run
      /\ \A j \in Ids : j # id => runs'[j] = runs[j]
  BY SetRun
<1>2. \A j \in Ids : Live(j) => j = id
  BY DEF OneAtATime
<1>3. \A j \in Ids' : Live(j)' => j = id
  BY <1>1, <1>2 DEF Live
<1>4. \A p \in Packages, j \in Ids : InHand(j, p) => Live(j)
  BY DEF InHand, Writing, Live, Steps
<1>5. \A p \in Packages, j \in Ids' : InHand(j, p)' => Live(j)'
  BY DEF InHand, Writing, Live, Steps
<1>6. id = Len(runs)
  BY DEF OneAtATime
<1>7. QED
  BY <1>1, <1>2, <1>3, <1>4, <1>5, <1>6

LEMMA ReadsOnSerial ==
  ASSUME EvidenceInv, Serial, NEW id \in Ids, ReadsOn(id)
  PROVE  Serial'
<1>1. PICK run : /\ Set(id, run) /\ Keeps(run, runs[id]) /\ run.at = runs[id].at
                 /\ run.step \in Reading \/ (run.step = "open" /\ run.file = 1)
  BY DEF ReadsOn
<1>2. Live(id) /\ runs[id].step \in Reading /\ UNCHANGED <<files, summary>>
  BY DEF ReadsOn, Live, Reading, Steps
<1>3. /\ Ids' = Ids /\ Len(runs') = Len(runs) /\ id = Len(runs) /\ runs'[id] = run
      /\ \A j \in Ids : ~Live(j) => runs'[j] = runs[j]
      /\ \A j \in Ids' : Live(j)' => j = id
      /\ \A p \in Packages, j \in Ids : InHand(j, p) => j = id
      /\ \A p \in Packages, j \in Ids' : InHand(j, p)' => j = id
  BY <1>1, <1>2, OneLive DEF Serial
<1>4. \A p \in Packages : ~InHand(id, p) /\ ~InHand(id, p)'
  BY <1>1, <1>2, <1>3 DEF InHand, Writing, Reading
<1>5. OneAtATime'
  <2>1. FreshOf(id) /\ DoneOf(id)
    BY <1>2 DEF Serial, OneAtATime
  <2>2. /\ ~Finished(runs[id]) /\ ~AtBundle(runs[id])
        /\ ~Finished(runs'[id])
        /\ runs'[id].targets = runs[id].targets /\ runs'[id].at = runs[id].at
    BY <1>1, <1>2, <1>3 DEF Finished, AtBundle, Reading, Keeps
  <2>3. FreshOf(id)' /\ DoneOf(id)'
    BY <1>2, <2>1, <2>2 DEF FreshOf, DoneOf
  <2>4. QED
    BY <1>3, <2>3 DEF OneAtATime
<1>6. InHandIsOwn'
  BY <1>3, <1>4 DEF InHandIsOwn
<1>7. SettledOrInHand'
  BY <1>2, <1>3, <1>4, SettledStays DEF Serial, SettledOrInHand
<1>8. SummaryIsOld'
  BY <1>2 DEF Serial, SummaryIsOld
<1>9. QED
  BY <1>5, <1>6, <1>7, <1>8 DEF Serial

(* What a command leaves when it is cut off while it writes.                *)
LEMMA CutOffInHand ==
  ASSUME EvidenceInv, Serial, NEW id \in Ids, NEW p \in Packages, InHand(id, p)
  PROVE  \/ files[p]["bundle"].state # "whole"
         \/ /\ \E f \in FileNames : files[p][f].run = id
            /\ files[p]["bundle"].run # id
<1>1. /\ Writing(id) /\ Target(id) = p /\ WrittenOf(id, p)
      /\ runs[id].file > 1 \/ runs[id].step = "close"
  BY DEF Serial, InHandIsOwn, InHand
<1>2. FreshOf(id) /\ ~Finished(runs[id])
  BY <1>1 DEF Serial, OneAtATime, Writing, Live, Steps, Finished
<1>3. runs[id] \in RunRecord /\ runs[id].at \in DOMAIN runs[id].targets
  <2>1. runs[id] \in RunRecord /\ runs[id].at <= Len(runs[id].targets)
    BY RunType DEF EvidenceInv, EvidenceTypeOK
  <2>2. QED
    BY <2>1 DEF RunRecord
<1>4. DOMAIN Files = 1..4 /\ Len(Files) = 4 /\ Files[4] = "bundle" /\ Files[1] \in FileNames
  BY DEF Files, FileNames
<1>5. CASE AtBundle(runs[id])
  <2>1. files[p]["bundle"] = Opened(id)
    BY <1>1, <1>4, <1>5 DEF AtBundle, WrittenOf
  <2>2. QED
    BY <2>1 DEF Opened, File
<1>6. CASE ~AtBundle(runs[id])
  <2>1. files[p]["bundle"].run # id
    BY <1>1, <1>2, <1>3, <1>6 DEF FreshOf, Target
  <2>2. files[p][Files[1]].run = id
    <3>1. CASE runs[id].file > 1
      BY <1>1, <1>3, <1>4, <3>1 DEF WrittenOf, File
    <3>2. CASE runs[id].file = 1
      BY <1>1, <3>2 DEF WrittenOf, Opened, File
    <3>3. QED
      BY <1>3, <1>4, <3>1, <3>2 DEF RunRecord
  <2>3. QED
    BY <1>4, <2>1, <2>2
<1>7. QED
  BY <1>5, <1>6

LEMMA CutsOffSerial ==
  ASSUME EvidenceInv, Serial, NEW id \in Ids, CutsOff(id)
  PROVE  Serial'
<1>1. PICK end \in {"failed", "killed"} : Set(id, Over(runs[id], end))
  BY DEF CutsOff
<1>2. Live(id) /\ UNCHANGED <<files, summary>>
  BY DEF CutsOff
<1>3. /\ Ids' = Ids /\ runs'[id] = Over(runs[id], end)
      /\ \A j \in Ids : ~Live(j) => runs'[j] = runs[j]
      /\ \A j \in Ids' : Live(j)' => j = id
      /\ \A p \in Packages, j \in Ids : InHand(j, p) => j = id
      /\ \A p \in Packages, j \in Ids' : InHand(j, p)' => j = id
  BY <1>1, <1>2, OneLive DEF Serial
<1>4. runs'[id].step = end
  BY <1>3, RunType DEF Over, RunRecord
<1>5. ~Live(id)' /\ \A p \in Packages : ~InHand(id, p)'
  BY <1>4 DEF Live, Steps, InHand, Writing
<1>6. OneAtATime' /\ InHandIsOwn'
  BY <1>3, <1>5 DEF OneAtATime, InHandIsOwn
<1>7. SettledOrInHand'
  <2> SUFFICES ASSUME NEW p \in Packages PROVE Settled(p)'
    BY DEF SettledOrInHand
  <2>1. CASE Settled(p)
    BY <1>2, <1>3, <2>1, SettledStays
  <2>2. CASE InHand(id, p)
    BY <1>2, <1>3, <1>4, <2>2, CutOffInHand DEF Settled, CutOff
  <2>3. QED
    BY <1>3, <2>1, <2>2 DEF Serial, SettledOrInHand
<1>8. SummaryIsOld'
  BY <1>2 DEF Serial, SummaryIsOld
<1>9. QED
  BY <1>6, <1>7, <1>8 DEF Serial

LEMMA AnswersSerial ==
  ASSUME EvidenceInv, Serial, NEW id \in Ids, Answers(id), NoTimeout'
  PROVE  Serial'
<1>1. PICK answer \in {"succeeded"} \cup HostCodes :
        /\ Set(id, [runs[id] EXCEPT !.host = answer])
        /\ Live(id) => answer = "SANDBOX_TIMEOUT"
  BY DEF Answers
<1>2. /\ Ids' = Ids /\ Len(runs') = Len(runs) /\ UNCHANGED <<files, summary>>
      /\ runs'[id] = [runs[id] EXCEPT !.host = answer]
      /\ \A j \in Ids : j # id => runs'[j] = runs[j]
  BY <1>1, SetRun DEF Answers
<1>3. runs'[id].host = answer /\ runs'[id].step = runs[id].step
  BY <1>2, RunType DEF RunRecord
<1>4. ~Live(id)
  BY <1>1, <1>2, <1>3 DEF NoTimeout, TimedOut
<1>5. \A j \in Ids : /\ Live(j)' => Live(j)
                     /\ Live(j) => runs'[j] = runs[j]
                     /\ runs'[j].step = runs[j].step
  BY <1>2, <1>3, <1>4 DEF Live
<1>6. ASSUME NEW p \in Packages, NEW j \in Ids, InHand(j, p) \/ InHand(j, p)'
      PROVE  InHand(j, p) /\ InHand(j, p)' /\ runs'[j] = runs[j]
  <2>1. runs'[j] = runs[j]
    BY <1>5, <1>6 DEF InHand, Writing, Live, Steps
  <2>2. QED
    BY <1>6, <2>1 DEF InHand, Writing, Target
<1>7. OneAtATime'
  BY <1>2, <1>5 DEF Serial, OneAtATime, FreshOf, DoneOf
<1>8. InHandIsOwn'
  <2>1. SUFFICES ASSUME NEW p \in Packages, NEW j \in Ids, InHand(j, p)'
                 PROVE  WrittenOf(j, p)'
    BY <1>2 DEF InHandIsOwn
  <2>2. InHand(j, p) /\ runs'[j] = runs[j] /\ files' = files
    BY <1>2, <1>6, <2>1
  <2>3. WrittenOf(j, p)
    BY <2>2 DEF Serial, InHandIsOwn
  <2>4. QED
    BY <2>2, <2>3 DEF WrittenOf
<1>9. SettledOrInHand'
  BY <1>2, <1>5, <1>6, SettledStays DEF Serial, SettledOrInHand
<1>10. SummaryIsOld'
  BY <1>2 DEF Serial, SummaryIsOld
<1>11. QED
  BY <1>7, <1>8, <1>9, <1>10 DEF Serial

LEMMA StartSerial ==
  ASSUME EvidenceInv, ShapeInv, NoTimeout, Serial, Start
  PROVE  Serial'
<1>1. PICK invocation \in Invocations :
        /\ runs'[Len(runs) + 1] = NewRun(invocation)
        /\ Ids = 1..Len(runs) /\ Ids' = 1..(Len(runs) + 1) /\ Len(runs') = Len(runs) + 1
        /\ \A j \in Ids : runs'[j] = runs[j]
  BY StartedRun
<1>2. PICK new \in Nat : new = Len(runs) + 1
  BY DEF EvidenceInv, EvidenceTypeOK
<1>3. UNCHANGED <<files, summary>> /\ \A id \in Ids : Returned(id)
  BY DEF Start
<1>4. /\ runs'[new].step = "discover" /\ runs'[new].at = 1
      /\ runs'[new].targets = invocation.targets
  BY <1>1, <1>2 DEF NewRun
<1>5. \A id \in Ids : ~Live(id)
  BY <1>3 DEF Returned, ShapeInv, RunShape, NoTimeout, TimedOut, Live
<1>6. new \in Nat /\ \A j \in Ids' : j \in Ids \/ j = new
  BY <1>1, <1>2 DEF EvidenceInv, EvidenceTypeOK
<1>7. \A j \in Ids' : Live(j)' => j = new
  BY <1>1, <1>5, <1>6 DEF Live
<1>8. \A p \in Packages, j \in Ids : ~InHand(j, p)
  BY <1>5 DEF InHand, Writing, Live, Steps
<1>9. \A p \in Packages, j \in Ids' : ~InHand(j, p)'
  <2> SUFFICES ASSUME NEW p \in Packages, NEW j \in Ids', InHand(j, p)' PROVE FALSE
    OBVIOUS
  <2>1. runs'[j].step \in {"open", "close"}
    BY DEF InHand, Writing
  <2>2. j = new
    BY <1>7, <2>1 DEF Live, Steps
  <2>3. QED
    BY <1>4, <2>1, <2>2
<1>10. FreshOf(new)' /\ DoneOf(new)'
  <2>1. invocation.targets \in Seq(Packages)
    BY InvocationType
  <2>2. ASSUME NEW j \in DOMAIN invocation.targets
        PROVE  /\ files'[invocation.targets[j]]["bundle"].run # new
               /\ ~(j < 1)
    <3>1. j \in Nat /\ j >= 1 /\ invocation.targets[j] \in Packages
      BY <2>1, ElementOfSeq
    <3>2. "bundle" \in FileNames
      BY DEF FileNames, Files
    <3>3. files[invocation.targets[j]]["bundle"].run <= Len(runs)
          /\ files[invocation.targets[j]]["bundle"].run \in Nat
      BY <3>1, <3>2 DEF EvidenceInv, EvidenceTypeOK, FileRecord
    <3>4. Len(runs) \in Nat
      BY DEF EvidenceInv, EvidenceTypeOK
    <3>5. QED
      BY <1>2, <1>3, <3>1, <3>3, <3>4
  <2>3. ~Finished(runs'[new])
    BY <1>4 DEF Finished
  <2>4. QED
    BY <1>4, <2>2, <2>3 DEF FreshOf, DoneOf
<1>11. OneAtATime'
  BY <1>1, <1>2, <1>7, <1>10 DEF OneAtATime
<1>12. InHandIsOwn'
  BY <1>9 DEF InHandIsOwn
<1>13. SettledOrInHand'
  <2>1. Ids \subseteq Ids' /\ \A j \in Ids : ~Live(j) => runs'[j].step = runs[j].step
    BY <1>1 DEF EvidenceInv, EvidenceTypeOK
  <2>2. QED
    BY <1>3, <1>8, <2>1, SettledStays DEF Serial, SettledOrInHand
<1>14. SummaryIsOld'
  BY <1>3 DEF Serial, SummaryIsOld
<1>15. QED
  BY <1>11, <1>12, <1>13, <1>14 DEF Serial

LEMMA WriteSummarySerial ==
  ASSUME EvidenceInv, ShapeInv, Serial, NEW id \in Ids, WriteSummary(id)
  PROVE  Serial'
<1>1. /\ Live(id) /\ runs[id].step = "summary" /\ files' = files /\ summary' = id
      /\ Set(id, Over(runs[id], "succeeded"))
  BY DEF WriteSummary, At
<1>2. /\ Ids' = Ids /\ runs'[id] = Over(runs[id], "succeeded")
      /\ \A j \in Ids : ~Live(j) => runs'[j] = runs[j]
      /\ \A j \in Ids' : Live(j)' => j = id
      /\ \A p \in Packages, j \in Ids : InHand(j, p) => j = id
      /\ \A p \in Packages, j \in Ids' : InHand(j, p)' => j = id
  BY <1>1, OneLive DEF Serial
<1>3. runs'[id].step = "succeeded"
  BY <1>2, RunType DEF Over, RunRecord
<1>4. ~Live(id)' /\ \A p \in Packages : ~InHand(id, p)' /\ ~InHand(id, p)
  BY <1>1, <1>3 DEF Live, Steps, InHand, Writing
<1>5. OneAtATime' /\ InHandIsOwn'
  BY <1>2, <1>4 DEF OneAtATime, InHandIsOwn
<1>6. SettledOrInHand'
  BY <1>1, <1>2, <1>4, SettledStays DEF Serial, SettledOrInHand
<1>7. SummaryIsOld'
  <2> SUFFICES ASSUME NEW p \in Packages, NEW f \in FileNames PROVE files[p][f].run = id
    BY <1>1, RunType DEF SummaryIsOld
  <2>1. runs[id].targets = PackageOrder
    BY <1>1 DEF ShapeInv, RunShape
  <2>2. PICK j \in DOMAIN PackageOrder : PackageOrder[j] = p
    BY DEF Packages
  <2>3. DoneOf(id) /\ Finished(runs[id])
    BY <1>1 DEF Serial, OneAtATime, Finished
  <2>4. QED
    BY <2>1, <2>2, <2>3 DEF DoneOf
<1>8. QED
  BY <1>5, <1>6, <1>7 DEF Serial

(* Where the live command is, and what a write of one of its files leaves.  *)
LEMMA WhereItIs ==
  ASSUME EvidenceInv, ShapeInv, NEW id \in Ids
  PROVE  /\ runs[id] \in RunRecord /\ runs[id].at \in DOMAIN runs[id].targets
         /\ DOMAIN runs[id].targets = 1..Len(runs[id].targets)
         /\ Len(runs[id].targets) \in Nat
         /\ \A j \in DOMAIN runs[id].targets :
               /\ runs[id].targets[j] \in Packages
               /\ j # runs[id].at => runs[id].targets[j] # Target(id)
         /\ runs[id].file \in 1..4 /\ Target(id) \in Packages
<1>1. runs[id] \in RunRecord /\ runs[id].at <= Len(runs[id].targets) /\ Target(id) \in Packages
  BY RunType DEF EvidenceInv, EvidenceTypeOK
<1>2. runs[id].targets \in Seq(Packages) /\ runs[id].at \in DOMAIN runs[id].targets
  BY <1>1 DEF RunRecord
<1>3. RunShape(runs[id])
  BY DEF ShapeInv
<1>4. \A j \in DOMAIN runs[id].targets : runs[id].targets[j] \in Packages
  BY <1>2, ElementOfSeq
<1>5. DOMAIN Files = 1..4
  BY DEF Files
<1>6. runs[id].file \in 1..4
  BY <1>1, <1>5 DEF RunRecord
<1>7. QED
  BY <1>1, <1>2, <1>3, <1>4, <1>6 DEF RunShape, Target

LEMMA FourFiles ==
  /\ Len(Files) = 4 /\ DOMAIN Files = 1..4 /\ Files[4] = "bundle"
  /\ FileNames = {Files[i] : i \in 1..4}
  /\ \A i, j \in 1..4 : Files[i] = Files[j] => i = j
BY DEF Files, FileNames

LEMMA OneFile ==
  ASSUME EvidenceInv, NEW p \in Packages, NEW f \in FileNames, NEW content,
         files' = [files EXCEPT ![p][f] = content]
  PROVE  /\ files'[p][f] = content
         /\ \A g \in FileNames \ {f} : files'[p][g] = files[p][g]
         /\ \A q \in Packages \ {p} : files'[q] = files[q]
BY DEF EvidenceInv, EvidenceTypeOK

(* The summary stays older than every file: a command writes no file of an  *)
(* earlier one.                                                             *)
LEMMA SummaryStaysOld ==
  ASSUME EvidenceInv, Serial, NEW id \in Ids, id = Len(runs), NEW p \in Packages,
         NEW f \in FileNames, NEW content, content.run = id,
         files' = [files EXCEPT ![p][f] = content], summary' = summary
  PROVE  SummaryIsOld'
<1>1. summary # 0 => summary <= id
  BY RunType DEF EvidenceInv, EvidenceTypeOK, Ids
<1>2. \A q \in Packages, g \in FileNames :
         files'[q][g] = files[q][g] \/ files'[q][g] = content
  BY OneFile
<1>3. QED
  BY <1>1, <1>2, RunType DEF Serial, SummaryIsOld, EvidenceInv, EvidenceTypeOK

(* The other packages, which the live command has not in hand.              *)
LEMMA OthersSettled ==
  ASSUME EvidenceInv, Serial, NEW id \in Ids, Live(id), NEW run, Set(id, run),
         NEW q \in Packages, q # Target(id), files'[q] = files[q]
  PROVE  Settled(q)'
<1>1. /\ Ids' = Ids
      /\ \A j \in Ids : ~Live(j) => runs'[j] = runs[j]
      /\ \A j \in Ids : InHand(j, q) => j = id
  BY OneLive DEF Serial
<1>2. ~InHand(id, q)
  BY DEF InHand
<1>3. Settled(q)
  BY <1>1, <1>2 DEF Serial, SettledOrInHand
<1>4. QED
  BY <1>1, <1>3, SettledStays

LEMMA OpenFileSerial ==
  ASSUME EvidenceInv, ShapeInv, Serial, NEW id \in Ids, OpenFile(id)
  PROVE  Serial'
<1> DEFINE run == [runs[id] EXCEPT !.step = "close"]
<1>1. PICK p \in Packages : p = Target(id)
  BY WhereItIs
<1>2. PICK n \in 1..4 : n = runs[id].file
  BY WhereItIs
<1>3. /\ Live(id) /\ runs[id].step = "open" /\ summary' = summary /\ Set(id, run)
      /\ Files[n] \in FileNames
  BY <1>2, FourFiles DEF OpenFile, At
<1>4. /\ Ids' = Ids /\ Len(runs') = Len(runs) /\ id = Len(runs) /\ runs'[id] = run
      /\ \A j \in Ids : j # id => runs'[j] = runs[j] /\ ~Live(j)
      /\ \A j \in Ids' : Live(j)' => j = id
      /\ \A q \in Packages, j \in Ids' : InHand(j, q)' => j = id
  BY <1>3, OneLive DEF Serial
<1>5. files' = [files EXCEPT ![p][Files[n]] = Opened(id)]
  <2>1. ~SharesFile(id, Files[n])
    BY <1>4 DEF SharesFile, At
  <2>2. QED
    BY <1>1, <1>2, <2>1 DEF OpenFile
<1>6. /\ files'[p][Files[n]] = Opened(id)
      /\ \A g \in FileNames \ {Files[n]} : files'[p][g] = files[p][g]
      /\ \A q \in Packages \ {p} : files'[q] = files[q]
  BY <1>3, <1>5, OneFile
<1>7. /\ runs'[id].step = "close" /\ runs'[id].at = runs[id].at /\ runs'[id].file = n
      /\ runs'[id].targets = runs[id].targets /\ runs'[id].read = runs[id].read
      /\ Target(id)' = p
  BY <1>1, <1>2, <1>4, WhereItIs DEF RunRecord, Target
<1> HIDE DEF run
<1>8. FreshOf(id) /\ DoneOf(id)
  BY <1>3 DEF Serial, OneAtATime
<1>9. FreshOf(id)'
  <2> SUFFICES ASSUME NEW j \in DOMAIN runs[id].targets,
                      \/ j > runs[id].at
                      \/ j = runs[id].at /\ ~AtBundle(runs'[id])
               PROVE  files'[runs[id].targets[j]]["bundle"].run # id
    BY <1>7 DEF FreshOf
  <2>1. CASE j > runs[id].at
    <3>1. j # runs[id].at
      BY <2>1, WhereItIs DEF RunRecord
    <3>2. runs[id].targets[j] \in Packages \ {p}
      BY <1>1, <3>1, WhereItIs
    <3>3. QED
      BY <1>6, <1>8, <2>1, <3>2 DEF FreshOf
  <2>2. CASE j = runs[id].at /\ ~AtBundle(runs'[id])
    <3>1. n # 4 /\ runs[id].targets[j] = p
      BY <1>1, <1>7, <2>2, FourFiles DEF AtBundle, Target
    <3>2. files'[p]["bundle"] = files[p]["bundle"]
      BY <1>6, <3>1, FourFiles
    <3>3. ~Finished(runs[id]) /\ ~AtBundle(runs[id])
      BY <1>3 DEF Finished, AtBundle
    <3>4. QED
      BY <1>8, <2>2, <3>1, <3>2, <3>3 DEF FreshOf
  <2>3. QED
    BY <2>1, <2>2
<1>10. DoneOf(id)'
  <2> SUFFICES ASSUME NEW j \in DOMAIN runs[id].targets, j < runs[id].at, NEW f \in FileNames
               PROVE  files'[runs[id].targets[j]][f].run = id
    BY <1>7 DEF DoneOf, Finished
  <2>1. j # runs[id].at
    BY WhereItIs DEF RunRecord
  <2>2. runs[id].targets[j] \in Packages \ {p}
    BY <1>1, <2>1, WhereItIs
  <2>3. QED
    BY <1>6, <1>8, <2>2 DEF DoneOf
<1>11. OneAtATime'
  BY <1>4, <1>9, <1>10 DEF OneAtATime
<1>12. InHandIsOwn'
  <2> SUFFICES ASSUME InHand(id, p)' PROVE WrittenOf(id, p)'
    BY <1>4, <1>7 DEF InHandIsOwn, InHand
  <2>1. ASSUME NEW i \in 1..4, i < n
        PROVE  files'[p][Files[i]] = File("whole", id, runs[id].read)
    <3>1. InHand(id, p)
      BY <1>1, <1>2, <1>3, <2>1 DEF InHand, Writing
    <3>2. files[p][Files[i]] = File("whole", id, runs[id].read)
      BY <1>2, <2>1, <3>1, FourFiles DEF Serial, InHandIsOwn, WrittenOf
    <3>3. Files[i] \in FileNames \ {Files[n]}
      BY <2>1, FourFiles
    <3>4. QED
      BY <1>6, <3>2, <3>3
  <2>2. QED
    BY <1>6, <1>7, <2>1, FourFiles DEF WrittenOf
<1>13. SettledOrInHand'
  <2>1. InHand(id, p)'
    BY <1>7 DEF InHand, Writing
  <2>2. \A q \in Packages \ {p} : Settled(q)'
    BY <1>1, <1>3, <1>6, OthersSettled
  <2>3. QED
    BY <1>4, <2>1, <2>2 DEF SettledOrInHand
<1>14. SummaryIsOld'
  <2>1. Opened(id).run = id
    BY DEF Opened, File
  <2>2. QED
    BY <1>3, <1>4, <1>5, <2>1, SummaryStaysOld
<1>15. QED
  BY <1>11, <1>12, <1>13, <1>14 DEF Serial

(* The end of a file: the next file, or the bundle is whole and then the    *)
(* next package, the summary or the end of the command.                     *)
LEMMA AfterFileCases ==
  ASSUME EvidenceInv, ShapeInv, NEW id \in Ids, NEW run, run = AfterFile(runs[id]),
         runs[id].step = "close"
  PROVE  /\ run.targets = runs[id].targets
         /\ \/ /\ runs[id].file < 4 /\ run.step = "open" /\ run.file = runs[id].file + 1
               /\ run.at = runs[id].at /\ run.read = runs[id].read
            \/ /\ runs[id].file = 4 /\ run.step = "dataset" /\ run.at = runs[id].at + 1
            \/ /\ runs[id].file = 4 /\ run.step = "summary" /\ run.at = runs[id].at
               /\ run.at = Len(run.targets)
            \/ /\ runs[id].file = 4 /\ run.step = "succeeded"
<1>1. /\ runs[id] \in RunRecord /\ runs[id].at \in 1..Len(runs[id].targets)
      /\ runs[id].file \in 1..4 /\ Len(Files) = 4 /\ Len(runs[id].targets) \in Nat
  BY WhereItIs, FourFiles
<1>2. CASE runs[id].file < 4
  BY <1>1, <1>2 DEF AfterFile, RunRecord
<1>3. CASE runs[id].file = 4
  BY <1>1, <1>3 DEF AfterFile, AfterPackage, Over, RunRecord
<1>4. QED
  BY <1>1, <1>2, <1>3

LEMMA CloseFileSerial ==
  ASSUME EvidenceInv, ShapeInv, Serial, NEW id \in Ids, CloseFile(id)
  PROVE  Serial'
<1>1. PICK p \in Packages : p = Target(id)
  BY WhereItIs
<1>2. PICK n \in 1..4 : n = runs[id].file
  BY WhereItIs
<1>3. PICK run : run = AfterFile(runs[id])
  OBVIOUS
<1>4. /\ Live(id) /\ runs[id].step = "close" /\ summary' = summary /\ Set(id, run)
      /\ Files[n] \in FileNames
  BY <1>2, <1>3, FourFiles DEF CloseFile, At
<1>5. /\ Ids' = Ids /\ Len(runs') = Len(runs) /\ id = Len(runs) /\ runs'[id] = run
      /\ \A j \in Ids' : Live(j)' => j = id
      /\ \A q \in Packages, j \in Ids' : InHand(j, q)' => j = id
  BY <1>4, OneLive DEF Serial
<1>6. InHand(id, p) /\ WrittenOf(id, p)
  BY <1>1, <1>4 DEF InHand, Writing, Serial, InHandIsOwn
<1>7. PICK content : content = File("whole", id, runs[id].read)
  OBVIOUS
<1>8. files' = [files EXCEPT ![p][Files[n]] = content]
  <2>1. files[p][Files[n]] = Opened(id)
    BY <1>2, <1>4, <1>6 DEF WrittenOf
  <2>2. QED
    BY <1>1, <1>2, <1>7, <2>1 DEF CloseFile
<1>9. /\ files'[p][Files[n]] = content /\ content.run = id
      /\ \A g \in FileNames \ {Files[n]} : files'[p][g] = files[p][g]
      /\ \A q \in Packages \ {p} : files'[q] = files[q]
  <2>1. content.run = id
    BY <1>7 DEF File
  <2>2. Files[n] \in FileNames
    BY <1>4
  <2>3. /\ files'[p][Files[n]] = content
        /\ \A g \in FileNames \ {Files[n]} : files'[p][g] = files[p][g]
        /\ \A q \in Packages \ {p} : files'[q] = files[q]
    BY <1>8, <2>2, OneFile
  <2>4. QED
    BY <2>1, <2>3
<1>10. \A i \in 1..4 : i <= n => files'[p][Files[i]] = content
  <2> SUFFICES ASSUME NEW i \in 1..4, i < n PROVE files'[p][Files[i]] = content
    BY <1>9
  <2>1. Files[i] \in FileNames \ {Files[n]}
    BY FourFiles
  <2>2. files[p][Files[i]] = content
    BY <1>2, <1>6, <1>7, FourFiles DEF WrittenOf
  <2>3. QED
    BY <1>9, <2>1, <2>2
<1>11. FreshOf(id) /\ DoneOf(id)
  BY <1>4 DEF Serial, OneAtATime
<1>12. /\ run.targets = runs[id].targets
       /\ \/ /\ n < 4 /\ run.step = "open" /\ run.file = n + 1
             /\ run.at = runs[id].at /\ run.read = runs[id].read
          \/ /\ n = 4 /\ run.step = "dataset" /\ run.at = runs[id].at + 1
          \/ /\ n = 4 /\ run.step = "summary" /\ run.at = runs[id].at
             /\ run.at = Len(run.targets)
          \/ /\ n = 4 /\ run.step = "succeeded"
  BY <1>2, <1>3, <1>4, AfterFileCases
<1>13. \A j \in DOMAIN runs[id].targets :
          /\ j \in Nat /\ j <= Len(runs[id].targets) /\ runs[id].at \in Nat
          /\ j # runs[id].at =>
                /\ runs[id].targets[j] \in Packages
                /\ files'[runs[id].targets[j]] = files[runs[id].targets[j]]
          /\ j = runs[id].at => runs[id].targets[j] = p
  BY <1>1, <1>9, WhereItIs DEF Target
<1>14. SummaryIsOld'
  <2>1. id = Len(runs) /\ summary' = summary /\ content.run = id /\ Files[n] \in FileNames
    BY <1>4, <1>5, <1>9
  <2>2. QED
    BY <1>8, <2>1, SummaryStaysOld
<1>15. \A q \in Packages \ {p} : Settled(q)'
  BY <1>1, <1>4, <1>9, OthersSettled
<1>16. CASE n < 4
  <2>1. /\ run.step = "open" /\ run.file = n + 1 /\ run.at = runs[id].at
        /\ run.read = runs[id].read
    BY <1>12, <1>16
  <2>2. FreshOf(id)'
    <3> SUFFICES ASSUME NEW j \in DOMAIN runs[id].targets, j >= runs[id].at
                 PROVE  files'[runs[id].targets[j]]["bundle"].run # id
      BY <1>5, <1>12, <1>13, <2>1 DEF FreshOf
    <3>1. ~Finished(runs[id]) /\ ~AtBundle(runs[id])
      BY <1>2, <1>4, <1>16, FourFiles DEF Finished, AtBundle
    <3>2. files[runs[id].targets[j]]["bundle"].run # id
      BY <1>11, <1>13, <3>1 DEF FreshOf
    <3>3. files'[p]["bundle"] = files[p]["bundle"]
      BY <1>9, <1>16, FourFiles
    <3>4. QED
      BY <1>13, <3>2, <3>3
  <2>3. DoneOf(id)'
    <3>1. \A j \in DOMAIN runs[id].targets : j < runs[id].at => j # runs[id].at
      BY <1>13
    <3>2. QED
      BY <1>5, <1>11, <1>12, <1>13, <2>1, <3>1 DEF DoneOf, Finished
  <2>4. Target(id)' = p
    BY <1>1, <1>5, <1>12, <2>1 DEF Target
  <2>5. WrittenOf(id, p)'
    BY <1>5, <1>7, <1>10, <2>1, FourFiles DEF WrittenOf
  <2>6. OneAtATime' /\ InHandIsOwn'
    BY <1>5, <2>2, <2>3, <2>4, <2>5 DEF OneAtATime, InHandIsOwn, InHand
  <2>7. InHand(id, p)'
    BY <1>5, <2>1, <2>4 DEF InHand, Writing
  <2>8. SettledOrInHand'
    BY <1>5, <1>15, <2>7 DEF SettledOrInHand
  <2>9. QED
    BY <1>14, <2>6, <2>8 DEF Serial
<1>17. CASE n = 4
  <2>1. \A f \in FileNames : files'[p][f] = content
    BY <1>10, <1>17, FourFiles
  <2>2. Settled(p)'
    BY <2>1, FourFiles DEF Settled
  <2>3. SettledOrInHand'
    BY <1>15, <2>2 DEF SettledOrInHand
  <2>4. run.step \in {"dataset", "summary", "succeeded"}
    BY <1>12, <1>17
  <2>5. InHandIsOwn'
    BY <1>5, <2>4 DEF InHandIsOwn, InHand, Writing
  <2>6. \A j \in DOMAIN runs[id].targets :
           j <= runs[id].at => \A f \in FileNames : files'[runs[id].targets[j]][f].run = id
    BY <1>9, <1>11, <1>13, <2>1 DEF DoneOf
  <2>7. \A j \in DOMAIN runs[id].targets :
           j > runs[id].at => files'[runs[id].targets[j]]["bundle"].run # id
    BY <1>11, <1>13 DEF FreshOf
  <2>8. OneAtATime'
    <3>1. CASE run.step = "dataset"
      <4>1. run.at = runs[id].at + 1 /\ ~Finished(run)
        BY <1>12, <1>17, <3>1 DEF Finished
      <4>2. FreshOf(id)'
        BY <1>5, <1>12, <1>13, <2>7, <4>1 DEF FreshOf
      <4>3. DoneOf(id)'
        BY <1>5, <1>12, <1>13, <2>6, <4>1 DEF DoneOf
      <4>4. QED
        BY <1>5, <4>2, <4>3 DEF OneAtATime
    <3>2. CASE run.step = "summary"
      <4>1. run.at = runs[id].at /\ run.at = Len(run.targets) /\ Finished(run)
        BY <1>12, <1>17, <3>2 DEF Finished
      <4>2. FreshOf(id)' /\ DoneOf(id)'
        BY <1>5, <1>12, <1>13, <2>6, <2>7, <4>1 DEF FreshOf, DoneOf
      <4>3. QED
        BY <1>5, <4>2 DEF OneAtATime
    <3>3. CASE run.step = "succeeded"
      BY <1>5, <3>3 DEF OneAtATime, Live, Steps
    <3>4. QED
      BY <2>4, <3>1, <3>2, <3>3
  <2>9. QED
    BY <1>14, <2>3, <2>5, <2>8 DEF Serial
<1>18. QED
  BY <1>16, <1>17

LEMMA SerialStart == Init => SerialInv /\ ShapeInv
<1> SUFFICES ASSUME Init PROVE Serial /\ ShapeInv
  BY DEF SerialInv
<1>1. Ids = {} /\ summary = 0
  BY DEF Init, Ids
<1>2. \A p \in Packages : files[p]["bundle"].state # "whole"
  BY FourFiles DEF Init, Absent, File
<1>3. QED
  BY <1>1, <1>2
  DEF Serial, ShapeInv, OneAtATime, InHandIsOwn, SettledOrInHand, Settled, SummaryIsOld

LEMMA SerialStep == EvidenceInv /\ ShapeInv /\ SerialInv /\ [Next]_vars => SerialInv'
<1> SUFFICES ASSUME EvidenceInv, ShapeInv, SerialInv, [Next]_vars, NoTimeout' PROVE Serial'
  BY DEF SerialInv
<1>1. NoTimeout /\ Serial
  BY TimeoutsStay DEF SerialInv
<1>2. CASE UNCHANGED <<files, summary, runs>>
  BY <1>1, <1>2
  DEF Serial, OneAtATime, InHandIsOwn, SettledOrInHand, SummaryIsOld, Ids, Live, FreshOf, DoneOf,
      InHand, WrittenOf, Settled, CutOff, Writing, Target
<1>3. QED
  BY <1>1, <1>2, StepKinds, StartSerial, ReadsOnSerial, CutsOffSerial, AnswersSerial,
     OpenFileSerial, CloseFileSerial, WriteSummarySerial

(* Evidence the verifier accepts is of one run, for any packages, any number *)
(* of commands and any interleaving of their steps with crashes and edits:  *)
(* unless a command was cut off while it wrote or a container outlived its  *)
(* client, the four files of a directory agree on the run they are of, and  *)
(* the files under a summary are not older than it (cli.py, report.py,      *)
(* verify.py).                                                              *)
THEOREM OneRunEvidence == Spec => []EvidenceIsOneRun
<1>1. Spec => [](EvidenceInv /\ ShapeInv /\ SerialInv)
  <2>1. EvidenceInv /\ ShapeInv /\ [Next]_vars => ShapeInv'
    BY ShapeStep
  <2>2. QED
    BY <2>1, EvidenceStart, EvidenceStep, SerialStart, SerialStep, PTL DEF Spec
<1>2. SerialInv => EvidenceIsOneRun
  <2> SUFFICES ASSUME SerialInv PROVE EvidenceIsOneRun
    OBVIOUS
  <2>1. ASSUME NEW p \in Packages, Verified(p), ~WritingNow(p),
               ~\E id \in Ids : CutOff(id, p) \/ TimedOut(id)
        PROVE  \A f \in FileNames : files[p][f] = files[p]["bundle"]
    <3>1. Serial
      BY <2>1 DEF SerialInv, NoTimeout
    <3>2. \A id \in Ids : ~InHand(id, p)
      BY <2>1 DEF WritingNow, InHand
    <3>3. Settled(p) /\ files[p]["bundle"].state = "whole"
      BY <2>1, <3>1, <3>2 DEF Serial, SettledOrInHand, Verified
    <3>4. QED
      BY <2>1, <3>3 DEF Settled
  <2>2. ASSUME summary # 0, NEW p \in Packages, NEW f \in FileNames
        PROVE  files[p][f].run >= summary \/ \E id \in Ids : TimedOut(id)
    BY <2>2 DEF SerialInv, NoTimeout, Serial, SummaryIsOld
  <2>3. QED
    BY <2>1, <2>2 DEF EvidenceIsOneRun
<1>3. QED
  BY <1>1, <1>2, PTL
=============================================================================
