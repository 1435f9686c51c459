-------------------------- MODULE EvidenceProperties --------------------------
(* What the evidence on disk may be relied upon for. *)
EXTENDS RunEvidence

Known == Versions \cup {None}
Read == [attested : BOOLEAN, seen : Known, checked : Known, ran : Known,
         dataset : Known, events : Known]
FileRecord == [state : {"absent", "open", "torn", "whole"}, run : Nat, read : Read]
RunRecord == [command : Commands, targets : Seq(Packages), attested : BOOLEAN,
              host : {None, "waiting", "succeeded"} \cup HostCodes,
              step : Steps \cup EndStates, at : Nat \ {0}, file : DOMAIN Files,
              seen : [Packages -> Known], read : Read]

(* Types: every command is at a step of its program and at one of its packages,
   and every file is absent, torn, open or whole, of a command that was started. *)
EvidenceTypeOK ==
    /\ package \in [Packages -> [Parts -> Versions]]
    /\ files \in [Packages -> [FileNames -> FileRecord]]
    /\ \A p \in Packages, f \in FileNames : files[p][f].run <= Len(runs)
    /\ summary \in {0} \cup Ids
    /\ runs \in Seq(RunRecord) /\ Len(runs) <= MaxRuns
    /\ \A id \in Ids : runs[id].at <= Len(runs[id].targets)
    /\ edits \in 0..MaxEdits

(* When the verifier accepts the bundle of a package, the run that wrote it
   imported the source the package has now, and decided on events its dataset
   manifest declares: through edits, crashes, reruns and overlapping writers.
   There are two exceptions.  An edit between the second evidence and the
   import, which load_strategy cannot see: then checked and ran differ.  And
   the events of a manifest of several streams, which nothing compares with it.
   (package.py:126 and cli.py:246 compare, verify.py:289 compares again.) *)
VerifiedRanCurrentSource ==
    \A p \in Packages : Verified(p) =>
        LET run == files[p]["bundle"].read
        IN  /\ run.checked = run.ran => run.ran = package[p].source
            /\ <<p, run.dataset>> \in OneStream => run.events = run.dataset

(* A run of a package ended while it wrote: it left files, and no bundle.json. *)
CutOff(id, p) ==
    /\ runs[id].step \in {"failed", "killed"}
    /\ \E f \in FileNames : files[p][f].run = id
    /\ files[p]["bundle"].run # id
TimedOut(id) == runs[id].host = "SANDBOX_TIMEOUT"
WritingNow(p) == \E id \in Ids : Writing(id) /\ Target(id) = p

(* Evidence the verifier accepts is of one run: unless a command was cut off
   while writing it or a container outlived its client, all the files of a
   directory, with report.json whose sandbox mode the verifier reads and
   bundle.json whose evidence it reads, are of the same run; and the summary is
   of a `demo all` that wrote every directory or was followed by a later run. *)
EvidenceIsOneRun ==
    /\ \A p \in Packages :
          (Verified(p) /\ ~WritingNow(p) /\ ~\E id \in Ids : CutOff(id, p) \/ TimedOut(id)) =>
              \A f \in FileNames : files[p][f] = files[p]["bundle"]
    /\ summary # 0 => \A p \in Packages, f \in FileNames :
          files[p][f].run >= summary \/ \E id \in Ids : TimedOut(id)

(* `psrc sandbox run` returns to its caller, whatever the strategy in the
   container does: the host waits no longer than the declared timeout. *)
SandboxRunReturns ==
    \A id \in 1..MaxRuns :
        (id \in Ids /\ runs[id].host = "waiting") ~> (id \in Ids /\ runs[id].host # "waiting")
===============================================================================
