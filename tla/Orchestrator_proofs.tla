-------------------------- MODULE Orchestrator_proofs --------------------------
(***************************************************************************)
(* Proofs about the artifact store, for every set of processes, requests,  *)
(* foreign manifests and any number of damaged files, and then about the   *)
(* orchestrator, for every set of processes that share a store and every   *)
(* set of trainings.  Only the latter use TrainingsAssumption: the store's *)
(* theorems are about any logical names.                                   *)
(***************************************************************************)
EXTENDS Orchestrator, SequenceTheorems, TLAPS

Writing == {"open_payload", "write_payload", "open_manifest", "write_manifest"}
Saving  == {"exists", "reuse", "create"} \cup Writing
Reading == {"is_dir", "is_file", "read"}

Safe(r) == r.artifact_id \notin Unsafe /\ r.logical_name \notin Unsafe

(* A process inside a call knows what the call is about.                    *)
CallOf(p) ==
  /\ pc[p] # "idle" => answer[p] = "none"
  /\ pc[p] \in Saving =>
       operation[p] = "save" /\ request[p] \in Request /\ Safe(request[p])
  /\ pc[p] \in Reading => manifest[p] \in Manifest
  /\ pc[p] \in Reading /\ operation[p] = "save" =>
       /\ request[p] \in Request /\ Safe(request[p])
       /\ manifest[p] = ManifestOf(request[p])
  /\ kept[p] # None =>
       /\ request[p] \in Request /\ Safe(request[p])
       /\ kept[p] = ManifestOf(request[p])
  /\ answer[p] = "loaded" =>
       /\ manifest[p] \in Manifest /\ loaded[p] \in Content
       /\ Sha256[loaded[p]] = manifest[p].sha256

CallInv == \A p \in Processes : CallOf(p)

(* A directory has at most one writer: the process that made it.            *)
WriterInv ==
  /\ \A p \in Processes : pc[p] \in Writing => request[p].artifact_id \in directories
  /\ \A p, q \in Processes :
       pc[p] \in Writing /\ pc[q] \in Writing
         /\ request[p].artifact_id = request[q].artifact_id => p = q

AskedInv == \A p \in Processes : request[p] \in Requests \cup {None}

StoreInv == StoreTypeOK /\ CallInv /\ WriterInv /\ AskedInv

LEMMA ManifestOfRequest ==
  ASSUME NEW r \in Request
  PROVE  /\ ManifestOf(r) \in Manifest /\ ManifestOf(r) # None
         /\ Target(ManifestOf(r)) = Target(r)
         /\ ManifestFile(ManifestOf(r)) = ManifestFile(r)
         /\ ManifestOf(r).artifact_id = r.artifact_id
         /\ ManifestOf(r).logical_name = r.logical_name
         /\ ManifestOf(r).sha256 = Sha256[r.payload]
         /\ r.payload \in Payloads /\ r.payload \in Content
         /\ r.artifact_id \in Ids /\ r.logical_name \in Names
         /\ r # None
<1>1. /\ r.payload \in Content /\ r.payload \in Payloads
      /\ r.artifact_id \in Ids /\ r.logical_name \in Names /\ r.provenance \in Provenances
  BY DEF Request, Content
<1>2. ManifestOf(r) \in Manifest
  BY <1>1 DEF ManifestOf, Manifest
<1>3. QED
  BY <1>1, <1>2, StoreAssumption DEF ManifestOf, Target, ManifestFile

LEMMA StoreStart == StoreInit => StoreInv
<1> SUFFICES ASSUME StoreInit PROVE StoreInv
  OBVIOUS
<1>1. StoreTypeOK
  BY StoreAssumption DEF StoreInit, StoreTypeOK, Calls, Refusals
<1>2. CallInv /\ WriterInv /\ AskedInv
  BY DEF StoreInit, AskedInv, CallInv, CallOf, WriterInv, Writing, Saving, Reading
<1>3. QED
  BY <1>1, <1>2 DEF StoreInv

StepOf(p) ==
  \/ Call(p) \/ Restart(p)
  \/ \E r \in Requests : CallSave(p, r)
  \/ \E m \in Strangers \cup ({kept[p]} \ {None}) : CallLoad(p, m)

(* What a step of process p leaves alone.                                   *)
Others(p) ==
  \A q \in Processes \ {p} :
    /\ pc'[q] = pc[q] /\ operation'[q] = operation[q] /\ request'[q] = request[q]
    /\ manifest'[q] = manifest[q] /\ kept'[q] = kept[q] /\ loaded'[q] = loaded[q]
    /\ answer'[q] = answer[q]

LEMMA OthersKept ==
  ASSUME StoreTypeOK, NEW p \in Processes, StepOf(p)
  PROVE  Others(p)
<1> USE DEF Others, StoreTypeOK, Goto, Answer, callVars
<1>1. CASE FindDirectory(p) \/ RefuseReuse(p) \/ Reuse(p) \/ CreateDirectory(p)
  BY <1>1 DEF FindDirectory, RefuseReuse, Reuse, CreateDirectory
<1>2. CASE OpenPayload(p) \/ WritePayload(p) \/ OpenManifest(p) \/ WriteManifest(p)
           \/ WriteFails(p)
  BY <1>2 DEF OpenPayload, WritePayload, OpenManifest, WriteManifest, WriteFails, Open
<1>3. CASE CheckDirectory(p) \/ CheckFile(p) \/ ReadFailed(p) \/ ReadPayload(p)
  BY <1>3 DEF CheckDirectory, CheckFile, ReadFailed, ReadPayload
<1>4. CASE Restart(p)
  BY <1>4 DEF Restart
<1>5. CASE \E r \in Requests : CallSave(p, r)
  BY <1>5 DEF CallSave
<1>6. CASE \E m \in Strangers \cup ({kept[p]} \ {None}) : CallLoad(p, m)
  BY <1>6 DEF CallLoad
<1>7. QED
  BY <1>1, <1>2, <1>3, <1>4, <1>5, <1>6 DEF Call, StepOf

-----------------------------------------------------------------------------
LEMMA PutType ==
  ASSUME NEW f, NEW V, f \in [DOMAIN f -> V], NEW place, NEW v \in V
  PROVE  /\ Put(f, place, v) \in [DOMAIN Put(f, place, v) -> V]
         /\ DOMAIN Put(f, place, v) = DOMAIN f \cup {place}
         /\ Put(f, place, v)[place] = v
         /\ \A x \in DOMAIN f : x # place => Put(f, place, v)[x] = f[x]
  BY DEF Put

(* Opening or writing a file of a directory that exists keeps the types.    *)
LEMMA PlacedType ==
  ASSUME StoreTypeOK, NEW place, NEW content \in Content \cup Manifest,
         files' = Put(files, place, content), place[1] \in directories,
         place = <<place[1], place[2]>>, place[2] \in Names \cup {ManifestName}
  PROVE  /\ files' \in [DOMAIN files' -> Content \cup Manifest]
         /\ DOMAIN files' \subseteq directories \X (Names \cup {ManifestName})
<1> DEFINE V == Content \cup Manifest
<1>1. /\ files' \in [DOMAIN files' -> V]
      /\ DOMAIN files' = DOMAIN files \cup {place}
  <2>1. files \in [DOMAIN files -> V] /\ content \in V
    BY DEF StoreTypeOK
  <2> HIDE DEF V
  <2>2. QED
    BY <2>1, SMTT(60) DEF Put
<1>2. QED
  BY <1>1 DEF StoreTypeOK

LEMMA LocalType ==
  ASSUME StoreTypeOK, CallInv, NEW p \in Processes,
         \/ FindDirectory(p) \/ RefuseReuse(p) \/ Reuse(p) \/ WriteFails(p)
         \/ CheckDirectory(p) \/ CheckFile(p) \/ ReadFailed(p) \/ ReadPayload(p)
         \/ Restart(p)
  PROVE  StoreTypeOK'
<1> USE DEF StoreTypeOK, Goto, Answer, callVars, diskVars, Calls, Refusals
<1>1. CASE FindDirectory(p)
  BY <1>1 DEF FindDirectory
<1>2. CASE RefuseReuse(p) \/ WriteFails(p)
  BY <1>2 DEF RefuseReuse, WriteFails
<1>3. CASE Reuse(p)
  <2>1. request[p] \in Request
    BY <1>3 DEF Reuse, At, CallInv, CallOf, Saving
  <2>2. files[ManifestFile(request[p])] \in Manifest
    BY <1>3, <2>1, ManifestOfRequest DEF Reuse, Reusable
  <2>3. QED
    BY <1>3, <2>2 DEF Reuse
<1>4. CASE CheckDirectory(p)
  BY <1>4 DEF CheckDirectory
<1>5. CASE CheckFile(p)
  BY <1>5 DEF CheckFile
<1>6. CASE ReadFailed(p)
  BY <1>6 DEF ReadFailed
<1>7. CASE ReadPayload(p)
  <2>1. files[Target(manifest[p])] \in Content
    BY <1>7 DEF ReadPayload, Verified
  <2>2. QED
    BY <1>7, <2>1 DEF ReadPayload
<1>8. CASE Restart(p)
  BY <1>8 DEF Restart
<1>9. QED
  BY <1>1, <1>2, <1>3, <1>4, <1>5, <1>6, <1>7, <1>8

LEMMA DiskType ==
  ASSUME StoreInv, NEW p \in Processes,
         \/ CreateDirectory(p) \/ OpenPayload(p) \/ WritePayload(p)
         \/ OpenManifest(p) \/ WriteManifest(p)
  PROVE  StoreTypeOK'
<1> DEFINE r == request[p]
<1>0. /\ r \in Request /\ StoreTypeOK
      /\ pc[p] \in Writing => r.artifact_id \in directories
  BY DEF StoreInv, CallInv, CallOf, WriterInv, Saving, Writing, CreateDirectory, OpenPayload,
         WritePayload, OpenManifest, WriteManifest, Open, At
<1>1. /\ ManifestOf(r) \in Manifest /\ r.payload \in Content /\ Torn \in Content
      /\ r.artifact_id \in Ids /\ r.logical_name \in Names
  BY <1>0, ManifestOfRequest DEF Content
<1>2. /\ Target(r) = <<r.artifact_id, r.logical_name>>
      /\ ManifestFile(r) = <<r.artifact_id, ManifestName>>
  BY DEF Target, ManifestFile
<1>3. CASE CreateDirectory(p)
  BY <1>0, <1>1, <1>3
  DEF CreateDirectory, StoreTypeOK, Goto, Answer, callVars, Calls, Refusals
<1>4. ASSUME NEW place \in {Target(r), ManifestFile(r)}, NEW c \in Content \cup Manifest,
             files' = Put(files, place, c), r.artifact_id \in directories
      PROVE  /\ files' \in [DOMAIN files' -> Content \cup Manifest]
             /\ DOMAIN files' \subseteq directories \X (Names \cup {ManifestName})
  <2>1. /\ place[1] \in directories /\ place = <<place[1], place[2]>>
        /\ place[2] \in Names \cup {ManifestName}
    BY <1>1, <1>2, <1>4
  <2>2. QED
    BY <1>0, <1>4, <2>1, PlacedType
<1> HIDE DEF r
<1>5. CASE OpenPayload(p) \/ WritePayload(p) \/ OpenManifest(p) \/ WriteManifest(p)
  <2>1. /\ r.artifact_id \in directories
        /\ \E place \in {Target(r), ManifestFile(r)}, c \in Content \cup Manifest :
             files' = Put(files, place, c)
        /\ directories' = directories /\ UNCHANGED <<damage, callVars, manifest, loaded>>
    BY <1>0, <1>1, <1>5
    DEF OpenPayload, WritePayload, OpenManifest, WriteManifest, Open, At, Writing, r
  <2>2. /\ files' \in [DOMAIN files' -> Content \cup Manifest]
        /\ DOMAIN files' \subseteq directories \X (Names \cup {ManifestName})
    BY <1>4, <2>1
  <2>3. /\ pc' \in [Processes -> Calls]
        /\ answer' \in [Processes -> Refusals \cup {"none", "saved", "loaded"}]
        /\ kept' \in [Processes -> Manifest \cup {None}]
    BY <1>0, <1>1, <1>5
    DEF OpenPayload, WritePayload, OpenManifest, WriteManifest, Open, Goto, Answer,
        StoreTypeOK, Calls, r
  <2>4. QED
    BY <1>0, <2>1, <2>2, <2>3 DEF StoreTypeOK, callVars
<1>6. QED
  BY <1>3, <1>5

LEMMA CallType ==
  ASSUME StoreTypeOK, NEW p \in Processes
  PROVE  /\ \A r \in Requests : CallSave(p, r) => StoreTypeOK'
         /\ \A m \in Strangers \cup ({kept[p]} \ {None}) : CallLoad(p, m) => StoreTypeOK'
<1>1. ASSUME NEW r \in Requests, CallSave(p, r) PROVE StoreTypeOK'
  BY <1>1, StoreAssumption
  DEF StoreTypeOK, CallSave, Answer, diskVars, callVars, Calls, Refusals
<1>2. ASSUME NEW m \in Strangers \cup ({kept[p]} \ {None}), CallLoad(p, m) PROVE StoreTypeOK'
  <2>1. m \in Manifest
    BY StoreAssumption DEF StoreTypeOK
  <2>2. QED
    BY <1>2, <2>1 DEF StoreTypeOK, CallLoad, Answer, diskVars, callVars, Calls, Refusals
<1>3. QED
  BY <1>1, <1>2

LEMMA DamageType ==
  ASSUME StoreTypeOK, Damage
  PROVE  StoreTypeOK'
<1>1. /\ damage' \in 0 .. MaxDamage
      /\ UNCHANGED <<directories, pc, operation, request, manifest, kept, loaded, answer>>
  BY StoreAssumption DEF Damage, StoreTypeOK, callVars
<1>2. PICK f \in DOMAIN files :
        \/ \E c \in Content \cup Strangers : files' = [files EXCEPT ![f] = c]
        \/ files' = [x \in DOMAIN files \ {f} |-> files[x]]
  BY DEF Damage
<1>3. /\ files' \in [DOMAIN files' -> Content \cup Manifest]
      /\ DOMAIN files' \subseteq DOMAIN files
  BY <1>2, StoreAssumption DEF StoreTypeOK
<1>4. QED
  BY <1>1, <1>3 DEF StoreTypeOK

LEMMA TypeStep ==
  ASSUME StoreInv, NEW p \in Processes, StepOf(p)
  PROVE  StoreTypeOK'
<1>1. CASE \/ FindDirectory(p) \/ RefuseReuse(p) \/ Reuse(p) \/ WriteFails(p)
           \/ CheckDirectory(p) \/ CheckFile(p) \/ ReadFailed(p) \/ ReadPayload(p)
           \/ Restart(p)
  BY <1>1, LocalType DEF StoreInv
<1>2. CASE \/ CreateDirectory(p) \/ OpenPayload(p) \/ WritePayload(p)
           \/ OpenManifest(p) \/ WriteManifest(p)
  BY <1>2, DiskType
<1>3. CASE \/ \E r \in Requests : CallSave(p, r)
           \/ \E m \in Strangers \cup ({kept[p]} \ {None}) : CallLoad(p, m)
  BY <1>3, CallType DEF StoreInv
<1>4. QED
  BY <1>1, <1>2, <1>3 DEF StepOf, Call

-----------------------------------------------------------------------------
LEMMA CallStep ==
  ASSUME StoreInv, NEW p \in Processes, StepOf(p)
  PROVE  CallInv'
<1>0. StoreTypeOK /\ CallInv /\ CallOf(p)
  BY DEF StoreInv, CallInv
<1>1. ASSUME NEW q \in Processes, q # p PROVE CallOf(q)'
  <2>1. CallOf(q) /\ Others(p)
    BY <1>0, OthersKept DEF CallInv
  <2>2. QED
    BY <1>1, <2>1 DEF CallOf, Others, ManifestOf, Safe
<1> USE DEF CallOf, StoreTypeOK, Saving, Writing, Reading, At, Goto, Answer, callVars
<1>2. CASE FindDirectory(p) \/ RefuseReuse(p) \/ CreateDirectory(p) \/ WriteFails(p)
  <2>1. CallOf(p)'
    BY <1>0, <1>2 DEF FindDirectory, RefuseReuse, CreateDirectory, WriteFails
  <2>2. QED
    BY <1>1, <2>1 DEF CallInv
<1>3. CASE Reuse(p)
  <2>1. /\ request[p] \in Request
        /\ files[ManifestFile(request[p])] = ManifestOf(request[p])
        /\ ManifestOf(request[p]) \in Manifest
    BY <1>0, <1>3, ManifestOfRequest DEF Reuse, Reusable
  <2>2. /\ pc[p] = "reuse" /\ pc'[p] = "is_dir" /\ manifest'[p] = ManifestOf(request[p])
        /\ UNCHANGED <<operation, request, kept, loaded, answer>>
    BY <1>0, <1>3, <2>1 DEF Reuse
  <2>3. /\ operation[p] = "save" /\ request[p] \in Request /\ Safe(request[p])
        /\ kept[p] # None => kept[p] = ManifestOf(request[p])
        /\ answer[p] = "none"
    BY <1>0, <2>2
  <2>4. CallOf(p)'
    BY <1>0, <2>1, <2>2, <2>3
  <2>5. QED
    BY <1>1, <2>4 DEF CallInv
<1>4. CASE OpenPayload(p) \/ WritePayload(p) \/ OpenManifest(p)
  <2>1. CallOf(p)'
    BY <1>0, <1>4 DEF OpenPayload, WritePayload, OpenManifest, Open
  <2>2. QED
    BY <1>1, <2>1 DEF CallInv
<1>5. CASE WriteManifest(p)
  <2>1. CallOf(p)'
    BY <1>0, <1>5 DEF WriteManifest
  <2>2. QED
    BY <1>1, <2>1 DEF CallInv
<1>6. CASE CheckDirectory(p) \/ CheckFile(p) \/ ReadFailed(p)
  <2>1. CallOf(p)'
    BY <1>0, <1>6 DEF CheckDirectory, CheckFile, ReadFailed
  <2>2. QED
    BY <1>1, <2>1 DEF CallInv
<1>7. CASE ReadPayload(p)
  <2>1. CallOf(p)'
    BY <1>0, <1>7 DEF ReadPayload, Verified
  <2>2. QED
    BY <1>1, <2>1 DEF CallInv
<1>8. CASE Restart(p)
  <2>1. CallOf(p)'
    BY <1>0, <1>8 DEF Restart
  <2>2. QED
    BY <1>1, <2>1 DEF CallInv
<1>9. ASSUME NEW r \in Requests, CallSave(p, r) PROVE CallInv'
  <2>1. CallOf(p)'
    BY <1>0, <1>9, StoreAssumption DEF CallSave, Safe
  <2>2. QED
    BY <1>1, <2>1 DEF CallInv
<1>10. ASSUME NEW m \in Strangers \cup ({kept[p]} \ {None}), CallLoad(p, m) PROVE CallInv'
  <2>1. m \in Manifest
    BY <1>0, StoreAssumption
  <2>2. CallOf(p)'
    BY <1>0, <1>10, <2>1 DEF CallLoad
  <2>3. QED
    BY <1>1, <2>2 DEF CallInv
<1>11. QED
  BY <1>2, <1>3, <1>4, <1>5, <1>6, <1>7, <1>8, <1>9, <1>10 DEF StepOf, Call

(* How a step makes or keeps its process a writer.                          *)
LEMMA WriterMoves ==
  ASSUME StoreTypeOK, NEW p \in Processes, StepOf(p)
  PROVE  /\ directories \subseteq directories'
         /\ pc'[p] \in Writing =>
              /\ request'[p] = request[p]
              /\ \/ pc[p] \in Writing
                 \/ /\ pc[p] = "create" /\ pc'[p] = "open_payload"
                    /\ UNCHANGED files
                    /\ request[p].artifact_id \notin directories
                    /\ request[p].artifact_id \in directories'
<1> USE DEF StoreTypeOK, Goto, Answer, At, Writing, callVars, diskVars
<1>1. CASE FindDirectory(p) \/ RefuseReuse(p) \/ Reuse(p) \/ CreateDirectory(p)
  BY <1>1 DEF FindDirectory, RefuseReuse, Reuse, CreateDirectory
<1>2. CASE OpenPayload(p) \/ WritePayload(p) \/ OpenManifest(p) \/ WriteManifest(p)
           \/ WriteFails(p)
  BY <1>2 DEF OpenPayload, WritePayload, OpenManifest, WriteManifest, WriteFails, Open
<1>3. CASE CheckDirectory(p) \/ CheckFile(p) \/ ReadFailed(p) \/ ReadPayload(p)
  BY <1>3 DEF CheckDirectory, CheckFile, ReadFailed, ReadPayload
<1>4. CASE Restart(p)
  BY <1>4 DEF Restart
<1>5. CASE \E r \in Requests : CallSave(p, r)
  BY <1>5 DEF CallSave
<1>6. CASE \E m \in Strangers \cup ({kept[p]} \ {None}) : CallLoad(p, m)
  BY <1>6 DEF CallLoad
<1>7. QED
  BY <1>1, <1>2, <1>3, <1>4, <1>5, <1>6 DEF Call, StepOf

LEMMA WriterStep ==
  ASSUME StoreInv, NEW p \in Processes, StepOf(p)
  PROVE  WriterInv'
<1>1. /\ StoreTypeOK /\ WriterInv
  BY DEF StoreInv
<1>2. Others(p)
  BY <1>1, OthersKept
<1>3. /\ directories \subseteq directories'
      /\ pc'[p] \in Writing =>
           /\ request'[p] = request[p]
           /\ \/ pc[p] \in Writing
              \/ /\ request[p].artifact_id \notin directories
                 /\ request[p].artifact_id \in directories'
  BY <1>1, WriterMoves
<1>4. QED
  BY <1>1, <1>2, <1>3 DEF WriterInv, Others

LEMMA AskedStep ==
  ASSUME StoreInv, NEW p \in Processes, StepOf(p)
  PROVE  AskedInv'
<1>1. /\ StoreTypeOK /\ AskedInv /\ Others(p)
  BY OthersKept DEF StoreInv
<1>2. request'[p] \in Requests \cup {None}
  BY <1>1
  DEF StoreTypeOK, AskedInv, StepOf, Call, FindDirectory, RefuseReuse, Reuse, CreateDirectory,
      OpenPayload, WritePayload, OpenManifest, WriteManifest, Open, WriteFails, CheckDirectory,
      CheckFile, ReadFailed, ReadPayload, Restart, CallSave, CallLoad, callVars
<1>3. QED
  BY <1>1, <1>2 DEF AskedInv, Others

LEMMA StoreStep == StoreInv /\ [StoreNext]_storeVars => StoreInv'
<1> SUFFICES ASSUME StoreInv, [StoreNext]_storeVars PROVE StoreInv'
  OBVIOUS
<1>1. ASSUME NEW p \in Processes, StepOf(p) PROVE StoreInv'
  BY <1>1, TypeStep, CallStep, WriterStep, AskedStep DEF StoreInv
<1>2. CASE Damage
  <2>1. StoreTypeOK'
    BY <1>2, DamageType DEF StoreInv
  <2>2. CallInv' /\ WriterInv' /\ AskedInv'
    BY <1>2 DEF Damage, callVars, StoreInv, AskedInv, CallInv, CallOf, WriterInv, ManifestOf, Safe
  <2>3. QED
    BY <2>1, <2>2 DEF StoreInv
<1>3. CASE UNCHANGED storeVars
  BY <1>3 DEF storeVars, diskVars, callVars, StoreInv, AskedInv, StoreTypeOK, CallInv, CallOf,
              WriterInv, ManifestOf, Safe
<1>4. QED
  BY <1>1, <1>2, <1>3 DEF StoreNext, StepOf

(* The disk and the calls keep their types, and every file stays in a       *)
(* directory of the store (save_bytes and load_bytes of ArtifactStore).     *)
THEOREM StoreTypes == StoreSpec => []StoreTypeOK
<1>1. StoreInv => StoreTypeOK
  BY DEF StoreInv
<1>2. QED
  BY <1>1, StoreStart, StoreStep, PTL DEF StoreSpec

(* load_bytes returns what the process saved, whatever others store under   *)
(* the identifier, wherever they crash and however files are damaged.       *)
THEOREM LoadsTheSaved == StoreSpec => []LoadsWhatItSaved
<1>1. StoreInv => LoadsWhatItSaved
  <2> SUFFICES ASSUME StoreInv, NEW p \in Processes,
                      answer[p] = "loaded", manifest[p] = kept[p]
               PROVE  loaded[p] = request[p].payload
    BY DEF LoadsWhatItSaved
  <2>1. manifest[p] \in Manifest /\ CallOf(p)
    BY DEF StoreInv, CallInv, CallOf
  <2>2. kept[p] # None
    BY <2>1, StoreAssumption
  <2>3. /\ loaded[p] \in Content /\ Sha256[loaded[p]] = kept[p].sha256
        /\ request[p] \in Request /\ kept[p] = ManifestOf(request[p])
    BY <2>1, <2>2 DEF CallOf
  <2>4. kept[p].sha256 = Sha256[request[p].payload] /\ request[p].payload \in Content
    BY <2>3, ManifestOfRequest
  <2>5. QED
    BY <2>3, <2>4, StoreAssumption
<1>2. QED
  BY <1>1, StoreStart, StoreStep, PTL DEF StoreSpec

-----------------------------------------------------------------------------
(* The disk as long as no file is damaged.  A writer has its directory for  *)
(* itself, and the manifest comes last.                                     *)
Holds(f, place, content) == place \in DOMAIN f /\ f[place] = content

Apart(r) == r.logical_name # ManifestName

Unfinished(d) == <<d, ManifestName>> \notin DOMAIN files \/ files[<<d, ManifestName>>] \in Content

WriterDisk(p) ==
  /\ pc[p] \in Writing => Unfinished(request[p].artifact_id)
  /\ pc[p] \in {"open_manifest", "write_manifest"} /\ Apart(request[p]) =>
       Holds(files, Target(request[p]), request[p].payload)

KnownDisk(p) ==
  /\ kept[p] # None => Holds(files, ManifestFile(kept[p]), kept[p])
  /\ pc[p] \in Reading /\ operation[p] = "save" =>
       Holds(files, ManifestFile(manifest[p]), manifest[p])
  /\ kept[p] # None /\ operation[p] = "load" /\ manifest[p] = kept[p] =>
       IF Apart(kept[p]) THEN answer[p] \notin Refusals ELSE answer[p] # "loaded"

ManifestDisk(d) ==
  LET place == <<d, ManifestName>> IN
  place \in DOMAIN files /\ files[place] \in Manifest =>
    /\ files[place].artifact_id = d
    /\ \E r \in Requests : files[place].logical_name = r.logical_name
    /\ Apart(files[place]) => Whole(files[place])

DiskInv ==
  damage = 0 =>
    /\ \A p \in Processes : WriterDisk(p) /\ KnownDisk(p)
    /\ \A d \in Ids : ManifestDisk(d)

(* What a process knows to be saved is whole.                               *)
LEMMA KnownWhole ==
  ASSUME StoreInv, NEW m \in Manifest, m.artifact_id \in Ids,
         \A d \in Ids : ManifestDisk(d), Holds(files, ManifestFile(m), m)
  PROVE  (Apart(m) => Whole(m)) /\ m.artifact_id \in directories
<1>1. Apart(m) => Whole(m)
  BY DEF ManifestDisk, Holds, ManifestFile
<1>2. ManifestFile(m) \in directories \X (Names \cup {ManifestName})
  BY DEF Holds, StoreInv, StoreTypeOK
<1>3. QED
  BY <1>1, <1>2 DEF ManifestFile

Places(p) == OpenPayload(p) \/ WritePayload(p) \/ OpenManifest(p) \/ WriteManifest(p)

(* A step that writes no file.                                              *)
LEMMA Quiet ==
  ASSUME NEW p \in Processes, StepOf(p), ~Places(p)
  PROVE  UNCHANGED <<files, damage>>
  BY DEF StepOf, Call, Places, FindDirectory, RefuseReuse, Reuse, CreateDirectory,
         WriteFails, CheckDirectory, CheckFile, ReadFailed, ReadPayload, Restart,
         CallSave, CallLoad, diskVars

LEMMA QuietKnown ==
  ASSUME StoreInv, NEW p \in Processes, StepOf(p), ~Places(p), UNCHANGED files,
         KnownDisk(p), \A d \in Ids : ManifestDisk(d)
  PROVE  KnownDisk(p)'
<1>0. StoreTypeOK /\ CallOf(p)
  BY DEF StoreInv, CallInv
<1>1. ASSUME kept[p] # None
      PROVE  /\ Safe(kept[p]) /\ kept[p].artifact_id \in directories
             /\ IF Apart(kept[p]) THEN Whole(kept[p])
                ELSE ~Verified(kept[p], files[Target(kept[p])])
  <2>1. /\ request[p] \in Request /\ Safe(request[p])
        /\ kept[p] = ManifestOf(request[p])
    BY <1>0, <1>1 DEF CallOf
  <2>2. /\ kept[p] \in Manifest /\ kept[p].artifact_id \in Ids /\ Safe(kept[p])
    BY <2>1, ManifestOfRequest DEF Safe
  <2>3. Holds(files, ManifestFile(kept[p]), kept[p])
    BY <1>1 DEF KnownDisk
  <2>4. kept[p] \notin Content
    BY <2>2, StoreAssumption
  <2>5. ~Apart(kept[p]) => files[Target(kept[p])] = kept[p]
    BY <2>3 DEF Apart, Holds, Target, ManifestFile
  <2>6. QED
    BY <2>2, <2>3, <2>4, <2>5, KnownWhole DEF Verified
<1> USE DEF KnownDisk, StoreTypeOK, Reading, Refusals, At, Goto, Answer, callVars
<1>2. CASE FindDirectory(p) \/ RefuseReuse(p) \/ CreateDirectory(p) \/ WriteFails(p)
  BY <1>0, <1>2 DEF FindDirectory, RefuseReuse, CreateDirectory, WriteFails, CallOf,
                    Saving, Writing, ManifestFile, Holds
<1>3. CASE Reuse(p)
  <2>1. /\ request[p] \in Request
        /\ Holds(files, ManifestFile(request[p]), ManifestOf(request[p]))
        /\ operation[p] = "save"
    BY <1>0, <1>3 DEF Reuse, Reusable, CallOf, Saving, Holds
  <2>2. ManifestFile(ManifestOf(request[p])) = ManifestFile(request[p])
    BY <2>1, ManifestOfRequest
  <2>3. manifest'[p] = ManifestOf(request[p])
    BY <1>0, <1>3, <2>1 DEF Reuse, Reusable
  <2>4. QED
    BY <1>0, <1>3, <2>1, <2>2, <2>3 DEF Reuse, ManifestFile, Holds
<1>4. CASE CheckDirectory(p)
  BY <1>0, <1>1, <1>4 DEF CheckDirectory, ManifestFile, Holds
<1>5. CASE CheckFile(p)
  BY <1>0, <1>1, <1>5 DEF CheckFile, ManifestFile, Holds, Whole, Safe
<1>6. CASE ReadFailed(p)
  <2>1. kept[p] # None /\ Apart(kept[p]) => manifest[p] # kept[p]
    BY <1>1, <1>6 DEF ReadFailed, Whole, Verified, Content
  <2>2. QED
    BY <1>0, <1>6, <2>1 DEF ReadFailed, ManifestFile, Holds
<1>7. CASE ReadPayload(p)
  <2>1. kept[p] # None /\ ~Apart(kept[p]) => manifest[p] # kept[p]
    BY <1>1, <1>7 DEF ReadPayload
  <2>2. QED
    BY <1>0, <1>7, <2>1 DEF ReadPayload, ManifestFile, Holds
<1>8. CASE Restart(p)
  BY <1>0, <1>8 DEF Restart
<1>9. CASE \E r \in Requests : CallSave(p, r)
  BY <1>0, <1>9 DEF CallSave
<1>10. CASE \E m \in Strangers \cup ({kept[p]} \ {None}) : CallLoad(p, m)
  BY <1>0, <1>1, <1>10 DEF CallLoad, ManifestFile, Holds, Safe
<1>11. QED
  BY <1>2, <1>3, <1>4, <1>5, <1>6, <1>7, <1>8, <1>9, <1>10 DEF StepOf, Call, Places

LEMMA QuietDisk ==
  ASSUME StoreInv, DiskInv, NEW p \in Processes, StepOf(p), ~Places(p)
  PROVE  DiskInv'
<1>0. /\ StoreTypeOK /\ WriterInv /\ Others(p) /\ UNCHANGED <<files, damage>>
  BY Quiet, OthersKept DEF StoreInv
<1> SUFFICES ASSUME damage' = 0 PROVE DiskInv'
  BY DEF DiskInv
<1>1. /\ \A q \in Processes : WriterDisk(q) /\ KnownDisk(q)
      /\ \A d \in Ids : ManifestDisk(d)
  BY <1>0 DEF DiskInv
<1>2. \A d \in Ids : ManifestDisk(d)'
  BY <1>0, <1>1 DEF ManifestDisk, Apart, Whole, Target
<1>3. ASSUME NEW q \in Processes, q # p PROVE WriterDisk(q)' /\ KnownDisk(q)'
  BY <1>0, <1>1, <1>3
  DEF WriterDisk, Unfinished, Apart, KnownDisk, Others, Holds, Target, ManifestFile
<1>4. KnownDisk(p)'
  BY <1>0, <1>1, QuietKnown
<1>5. WriterDisk(p)'
  <2>1. CASE pc[p] = "create" /\ pc'[p] = "open_payload"
    <3>1. /\ request'[p] = request[p] /\ request[p].artifact_id \notin directories
      BY <1>0, <2>1, WriterMoves DEF Writing
    <3>2. ManifestFile(request[p]) \notin DOMAIN files
      BY <1>0, <3>1 DEF StoreTypeOK, ManifestFile
    <3>3. QED
      BY <1>0, <2>1, <3>1, <3>2 DEF WriterDisk, Unfinished, ManifestFile
  <2>2. CASE pc'[p] \notin Writing
    BY <2>2 DEF WriterDisk, Writing
  <2>3. pc[p] \in Writing => pc'[p] \notin Writing
    BY <1>0
    DEF StepOf, Call, Places, FindDirectory, RefuseReuse, Reuse, CreateDirectory,
        WriteFails, CheckDirectory, CheckFile, ReadFailed, ReadPayload, Restart,
        CallSave, CallLoad, At, Answer, Writing, StoreTypeOK
  <2>4. QED
    BY <1>0, <2>1, <2>2, <2>3, WriterMoves
<1>6. QED
  BY <1>2, <1>3, <1>4, <1>5 DEF DiskInv

(* A step that writes a file: no other process knows the directory.         *)
LEMMA PlaceDiskOf ==
  ASSUME StoreInv, DiskInv, NEW p \in Processes, StepOf(p), Places(p),
         NEW r, r = request[p]
  PROVE  DiskInv'
<1> DEFINE d == r.artifact_id
           mine == ManifestFile(r)
<1>0. /\ StoreTypeOK /\ WriterInv /\ CallInv /\ Others(p) /\ UNCHANGED damage
      /\ pc[p] \in Writing /\ r \in Request /\ r \in Requests \cup {None}
  BY OthersKept
  DEF StoreInv, AskedInv, CallInv, CallOf, Saving, Writing, Places, OpenPayload, WritePayload,
      OpenManifest, WriteManifest, Open, At
<1> SUFFICES ASSUME damage' = 0 PROVE DiskInv'
  BY DEF DiskInv
<1>1. /\ \A q \in Processes : WriterDisk(q) /\ KnownDisk(q)
      /\ \A e \in Ids : ManifestDisk(e)
  BY <1>0 DEF DiskInv
<1>2. /\ ManifestOf(r) \in Manifest /\ r.payload \in Payloads
      /\ Target(ManifestOf(r)) = Target(r) /\ ManifestFile(ManifestOf(r)) = mine
      /\ ManifestOf(r).artifact_id = d /\ ManifestOf(r).sha256 = Sha256[r.payload]
      /\ d \in Ids /\ r.logical_name \in Names /\ Torn \notin Manifest
      /\ \A c \in Payloads : c \notin Manifest
      /\ Target(r) = <<d, r.logical_name>> /\ mine = <<d, ManifestName>>
      /\ (Apart(r) <=> Target(r) # mine) /\ (Apart(ManifestOf(r)) <=> Apart(r))
      /\ r \in Requests /\ ManifestOf(r).logical_name = r.logical_name
      /\ r.payload \in Content /\ Torn \in Content
  BY <1>0, ManifestOfRequest, StoreAssumption DEF Target, ManifestFile, Content, Apart
<1>3. mine \notin DOMAIN files \/ files[mine] \notin Manifest
  BY <1>0, <1>1, <1>2, StoreAssumption DEF WriterDisk, Unfinished
<1>4. /\ \A x \in DOMAIN files : x[1] # d => x \in DOMAIN files' /\ files'[x] = files[x]
      /\ \A x \in DOMAIN files' : x[1] # d => x \in DOMAIN files
  BY <1>0, <1>2 DEF Places, OpenPayload, WritePayload, OpenManifest, WriteManifest, Open, Put
<1>5. ASSUME NEW place, place[1] # d
      PROVE  /\ \A c : Holds(files, place, c) => Holds(files', place, c)
             /\ place \notin DOMAIN files => place \notin DOMAIN files'
  BY <1>4, <1>5 DEF Holds
<1>6. ASSUME NEW m \in Manifest, Holds(files, ManifestFile(m), m)
      PROVE  /\ ManifestFile(m)[1] # d
             /\ Holds(files', ManifestFile(m), m)
  BY <1>2, <1>3, <1>5, <1>6 DEF Holds, ManifestFile
<1>7. ASSUME NEW q \in Processes, q # p PROVE WriterDisk(q)' /\ KnownDisk(q)'
  <2>1. /\ pc'[q] = pc[q] /\ operation'[q] = operation[q] /\ request'[q] = request[q]
        /\ manifest'[q] = manifest[q] /\ kept'[q] = kept[q] /\ answer'[q] = answer[q]
    BY <1>0, <1>7 DEF Others
  <2>2. ASSUME NEW s, s = request[q] PROVE WriterDisk(q)'
    <3>1. pc[q] \in Writing => s.artifact_id # d
      BY <1>0, <1>7, <2>2 DEF WriterInv
    <3>2. pc[q] \in Writing =>
            /\ Holds(files, Target(s), s.payload) => Holds(files', Target(s), s.payload)
            /\ Unfinished(s.artifact_id) => Unfinished(s.artifact_id)'
      <4>1. pc[q] \in Writing =>
              (Holds(files, Target(s), s.payload) => Holds(files', Target(s), s.payload))
        BY <1>5, <3>1 DEF Target
      <4>2. pc[q] \in Writing => (Unfinished(s.artifact_id) => Unfinished(s.artifact_id)')
        BY <1>4, <3>1 DEF Unfinished
      <4>3. QED
        BY <4>1, <4>2
    <3>3. WriterDisk(q)
      BY <1>1
    <3>4. QED
      BY <2>1, <2>2, <3>2, <3>3 DEF WriterDisk, Unfinished, Apart, Writing
  <2>3. KnownDisk(q)'
    <3>1. kept[q] # None => kept[q] \in Manifest
      BY <1>0 DEF StoreTypeOK
    <3>2. pc[q] \in Reading => manifest[q] \in Manifest
      BY <1>0 DEF CallInv, CallOf
    <3>3. /\ kept[q] # None => Holds(files', ManifestFile(kept[q]), kept[q])
          /\ pc[q] \in Reading /\ operation[q] = "save" =>
               Holds(files', ManifestFile(manifest[q]), manifest[q])
      BY <1>1, <1>6, <3>1, <3>2 DEF KnownDisk
    <3>4. QED
      BY <1>1, <2>1, <3>3 DEF KnownDisk
  <2>4. QED
    BY <2>2, <2>3
<1>8. ASSUME NEW e \in Ids, e # d PROVE ManifestDisk(e)'
  <2> DEFINE place == <<e, ManifestName>>
  <2> SUFFICES ASSUME place \in DOMAIN files', files'[place] \in Manifest
               PROVE  /\ files'[place].artifact_id = e
                      /\ \E s \in Requests : files'[place].logical_name = s.logical_name
                      /\ Apart(files'[place]) => Whole(files[place])'
    BY DEF ManifestDisk, Apart
  <2>1. /\ place \in DOMAIN files /\ files[place] = files'[place]
        /\ files[place].artifact_id = e
        /\ \E s \in Requests : files[place].logical_name = s.logical_name
        /\ Apart(files[place]) => Whole(files[place])
    BY <1>1, <1>4, <1>8 DEF ManifestDisk
  <2>2. Target(files[place])[1] # d
    BY <1>8, <2>1 DEF Target
  <2>3. QED
    BY <1>4, <2>1, <2>2 DEF Whole
<1>9. /\ request'[p] = r
      /\ kept[p] # None => kept[p] = ManifestOf(r)
      /\ answer[p] = "none" /\ operation[p] = "save"
  BY <1>0 DEF CallInv, CallOf, StoreTypeOK, Saving, Writing, Places, OpenPayload,
              WritePayload, OpenManifest, WriteManifest, Open, callVars
<1>10. kept[p] = None
  BY <1>0, <1>1, <1>2, <1>3, <1>9 DEF KnownDisk, Holds
<1>11. CASE OpenPayload(p) \/ WritePayload(p) \/ OpenManifest(p)
  <2>1. /\ kept'[p] = None /\ pc'[p] \notin Reading
    BY <1>0, <1>10, <1>11
    DEF OpenPayload, WritePayload, OpenManifest, Open, Goto, StoreTypeOK, Reading
  <2>2. KnownDisk(p)'
    BY <2>1 DEF KnownDisk
  <2>3. /\ WriterDisk(p)'
        /\ mine \notin DOMAIN files' \/ files'[mine] \in Content
    <3>0. mine \notin DOMAIN files \/ files[mine] \in Content
      BY <1>0, <1>1, <1>2 DEF WriterDisk, Unfinished
    <3>1. CASE OpenPayload(p)
      <4>1. files' = Put(files, Target(r), Torn) /\ pc'[p] = "write_payload"
        BY <1>0, <3>1 DEF OpenPayload, Open, At, Goto, StoreTypeOK
      <4>2. mine \notin DOMAIN files' \/ files'[mine] \in Content
        BY <1>2, <3>0, <4>1 DEF Put
      <4>3. QED
        BY <1>2, <1>9, <4>1, <4>2 DEF WriterDisk, Unfinished
    <3>2. CASE WritePayload(p)
      <4>1. files' = Put(files, Target(r), r.payload) /\ pc'[p] = "open_manifest"
        BY <1>0, <3>2 DEF WritePayload, At, Goto, StoreTypeOK
      <4>2. /\ mine \notin DOMAIN files' \/ files'[mine] \in Content
            /\ Holds(files', Target(r), r.payload)
        BY <1>2, <3>0, <4>1 DEF Put, Holds
      <4>3. QED
        BY <1>2, <1>9, <4>1, <4>2 DEF WriterDisk, Unfinished
    <3>3. CASE OpenManifest(p)
      <4>1. /\ Apart(r) => Holds(files, Target(r), r.payload)
            /\ files' = Put(files, mine, Torn) /\ pc'[p] = "write_manifest"
        BY <1>0, <1>1, <3>3 DEF OpenManifest, Open, At, Goto, WriterDisk, StoreTypeOK
      <4>2. /\ files'[mine] \in Content
            /\ Apart(r) => Holds(files', Target(r), r.payload)
        BY <1>2, <4>1 DEF Put, Holds
      <4>3. QED
        BY <1>2, <1>9, <4>1, <4>2 DEF WriterDisk, Unfinished
    <3>4. QED
      BY <1>11, <3>1, <3>2, <3>3
  <2>4. ManifestDisk(d)'
    BY <1>2, <2>3, StoreAssumption DEF ManifestDisk
  <2>5. QED
    BY <1>7, <1>8, <2>2, <2>3, <2>4 DEF DiskInv
<1>12. CASE WriteManifest(p)
  <2>1. /\ Apart(r) => Holds(files, Target(r), r.payload)
        /\ files' = Put(files, mine, ManifestOf(r)) /\ pc'[p] = "idle"
        /\ kept'[p] = ManifestOf(r) /\ operation'[p] = "save"
    BY <1>0, <1>1, <1>9, <1>12
    DEF WriteManifest, At, Answer, WriterDisk, StoreTypeOK, callVars
  <2>2. /\ Holds(files', mine, ManifestOf(r))
        /\ Apart(r) => Holds(files', Target(r), r.payload)
    BY <1>2, <2>1 DEF Put, Holds
  <2>3. WriterDisk(p)' /\ KnownDisk(p)'
    BY <1>2, <2>1, <2>2 DEF WriterDisk, KnownDisk, Reading, Writing
  <2>4. ManifestDisk(d)'
    BY <1>2, <2>2 DEF ManifestDisk, Whole, Holds
  <2>5. QED
    BY <1>7, <1>8, <2>3, <2>4 DEF DiskInv
<1>13. QED
  BY <1>11, <1>12 DEF Places

LEMMA PlaceDisk ==
  ASSUME StoreInv, DiskInv, NEW p \in Processes, StepOf(p), Places(p)
  PROVE  DiskInv'
<1>1. PICK r : r = request[p]
  OBVIOUS
<1>2. QED
  BY <1>1, PlaceDiskOf

LEMMA DiskStep == StoreInv /\ DiskInv /\ [StoreNext]_storeVars => DiskInv'
<1> SUFFICES ASSUME StoreInv, DiskInv, [StoreNext]_storeVars PROVE DiskInv'
  OBVIOUS
<1>1. ASSUME NEW p \in Processes, StepOf(p) PROVE DiskInv'
  BY <1>1, QuietDisk, PlaceDisk
<1>2. CASE Damage
  <2>1. damage' # 0
    BY <1>2 DEF Damage, StoreInv, StoreTypeOK
  <2>2. QED
    BY <2>1 DEF DiskInv
<1>3. CASE UNCHANGED storeVars
  BY <1>3 DEF storeVars, diskVars, callVars, DiskInv, WriterDisk, KnownDisk, ManifestDisk,
              Unfinished, Apart, Whole, Target, ManifestFile
<1>4. QED
  BY <1>1, <1>2, <1>3 DEF StoreNext, StepOf

LEMMA DiskStart == StoreInit => DiskInv
  BY DEF StoreInit, DiskInv, WriterDisk, KnownDisk, ManifestDisk, Reading, Writing

(* save_bytes writes the manifest last into a directory of its own: without *)
(* damage from outside, whatever crashes or races, an artifact that has a   *)
(* manifest has the payload it declares, unless its payload was to be named *)
(* as the manifest.                                                         *)
THEOREM ManifestMarksWhole == StoreSpec => []ManifestMeansWhole
<1>1. StoreInv /\ DiskInv => ManifestMeansWhole
  <2> SUFFICES ASSUME StoreInv, DiskInv, damage = 0, NEW f \in DOMAIN files,
                      f[2] = ManifestName, files[f] \in Manifest
               PROVE  /\ files[f].artifact_id = f[1]
                      /\ Apart(files[f]) => Whole(files[f])
    BY DEF ManifestMeansWhole, Apart
  <2>1. f[1] \in Ids /\ f = <<f[1], ManifestName>>
    BY DEF StoreInv, StoreTypeOK
  <2>2. ManifestDisk(f[1])
    BY <2>1 DEF DiskInv
  <2>3. QED
    BY <2>1, <2>2 DEF ManifestDisk
<1>2. QED
  BY <1>1, StoreStart, StoreStep, DiskStart, DiskStep, PTL DEF StoreSpec

(* load_bytes never refuses, without damage from outside, the manifest that *)
(* save_bytes returned to the process, and always the one of a payload      *)
(* named as the manifest.                                                   *)
THEOREM SavedLoads == StoreSpec => []SavedIsLoadable
<1>1. StoreInv /\ DiskInv => SavedIsLoadable
  <2> SUFFICES ASSUME StoreInv, DiskInv, damage = 0, NEW p \in Processes, kept[p] # None
               PROVE  /\ Apart(kept[p]) => Whole(kept[p])
                      /\ operation[p] = "load" /\ manifest[p] = kept[p] =>
                           IF Apart(kept[p]) THEN answer[p] \notin Refusals
                           ELSE answer[p] # "loaded"
    BY DEF SavedIsLoadable, Apart
  <2>1. KnownDisk(p) /\ (\A d \in Ids : ManifestDisk(d)) /\ CallOf(p)
    BY DEF DiskInv, StoreInv, CallInv
  <2>2. kept[p] \in Manifest /\ kept[p].artifact_id \in Ids
    BY <2>1, ManifestOfRequest DEF CallOf
  <2>3. QED
    BY <2>1, <2>2, KnownWhole DEF KnownDisk
<1>2. QED
  BY <1>1, StoreStart, StoreStep, DiskStart, DiskStep, PTL DEF StoreSpec

-----------------------------------------------------------------------------
(* The history of a run, statement by statement.                            *)
Discovered  == <<"DISCOVERED">>
RuleRuns    == Discovered \o <<"VALIDATED", "CAPABILITIES_NEGOTIATED", "INITIALIZED",
                               "INFERENCE_BACKTEST">>
Initialized == <<"DISCOVERED", "VALIDATED", "CAPABILITIES_NEGOTIATED", "INITIALIZED">>
Trains      == Initialized \o <<"TRAINING">>
Loads       == Trains \o <<"ARTIFACT_SAVED">>
ModelRuns   == Loads \o <<"ARTIFACT_LOADED", "INFERENCE_BACKTEST">>

Walked(what, statement) ==
  CASE statement = "start"              -> <<>>
    [] statement = "transform"          -> IF what = "rule" THEN Discovered ELSE Initialized
    [] statement \in {"train", "saving"} -> Trains
    [] statement = "loading"            -> Loads
    [] statement = "engine"             -> IF what = "rule" THEN RuleRuns ELSE ModelRuns

(* The codes with which a statement can end a run.                          *)
StoreCodes == {"ARTIFACT_NOT_FOUND", "ARTIFACT_HASH_MISMATCH"}

CodesOf(statement) ==
  CASE statement = "transform" -> {"COMPATIBILITY_TRANSFORM_FAILED"}
    [] statement = "train"     -> {"TRAINING_FAILED"}
    [] statement = "saving"    -> StoreCodes \cup {"TRAINING_FAILED"}
    [] statement = "loading"   -> StoreCodes \cup {"INFERENCE_FAILED"}
    [] statement = "engine"    -> EngineErrors \cup {"BACKTEST_FAILED"}

TrainableOnly == {"train", "saving", "loading"}
Statements    == {"transform", "engine"} \cup TrainableOnly

(* The model is the payload this run saved, and is known to be saved.       *)
TrainedModel(p) ==
  kind[p] = "trainable" => kept[p] # None /\ model[p] = request[p].payload

Succeeded(p) ==
  /\ failure[p] = "none"
  /\ history[p] = Walked(kind[p], "engine") \o <<"FINALIZED">>
  /\ TrainedModel(p)

FailedAt(p, statement) ==
  /\ failure[p] \in CodesOf(statement)
  /\ history[p] = Append(Walked(kind[p], statement), "FAILED")
  /\ statement \in TrainableOnly => kind[p] = "trainable"

(* What the process asked the store for, by its statement.                  *)
Asked(p) ==
  /\ todo[p] \notin {"saving", "loading"} => pc[p] = "idle"
  /\ todo[p] = "saving" =>
       operation[p] = "save" /\ (answer[p] = "saved" => kept[p] # None)
  /\ todo[p] = "loading" =>
       operation[p] = "load" /\ kept[p] # None /\ manifest[p] = kept[p]

RunOf(p) ==
  /\ todo[p] # "done" => failure[p] = "none" /\ history[p] = Walked(kind[p], todo[p])
  /\ todo[p] = "done" => Succeeded(p) \/ \E s \in Statements : FailedAt(p, s)
  /\ todo[p] \in TrainableOnly => kind[p] = "trainable"
  /\ todo[p] = "engine" => TrainedModel(p)
  /\ Asked(p)

RunTypes ==
  /\ kind \in [Processes -> {"rule", "trainable"}]
  /\ todo \in [Processes -> Statements \cup {"start", "done"}]
  /\ history = [p \in Processes |-> history[p]]
  /\ failure = [p \in Processes |-> failure[p]]
  /\ model \in [Processes -> Content \cup {None}]

RunInv == RunTypes /\ \A p \in Processes : RunOf(p)

-----------------------------------------------------------------------------
(* A sequence and its continuation.                                         *)
LEMMA Joined ==
  ASSUME NEW s \in Seq(States), NEW t \in Seq(States)
  PROVE  /\ s \o t \in Seq(States) /\ Len(s \o t) = Len(s) + Len(t)
         /\ \A i \in 1 .. Len(s) : (s \o t)[i] = s[i]
         /\ \A i \in 1 .. Len(t) : (s \o t)[Len(s) + i] = t[i]
  OBVIOUS

LEMMA Ended ==
  ASSUME NEW s \in Seq(States), NEW e \in States
  PROVE  /\ Append(s, e) \in Seq(States) /\ Len(Append(s, e)) = Len(s) + 1
         /\ \A i \in 1 .. Len(s) : Append(s, e)[i] = s[i]
         /\ Append(s, e)[Len(s) + 1] = e
  OBVIOUS

(* How the histories end, and where the history of a trainable strategy     *)
(* shows its training.                                                      *)
Ends(s, n, state) == s \in Seq(States) /\ Len(s) = n /\ s[n] = state

Trained(s) == s[5] = "TRAINING" /\ s[6] = "ARTIFACT_SAVED" /\ s[7] = "ARTIFACT_LOADED"

LEMMA JoinedEnds ==
  ASSUME NEW s, NEW t, NEW n \in Nat, NEW k \in Nat \ {0}, NEW first, NEW last,
         Ends(s, n, first), Ends(t, k, last)
  PROVE  Ends(s \o t, n + k, last)
<1>1. s \in Seq(States) /\ Len(s) = n /\ t \in Seq(States) /\ Len(t) = k /\ t[k] = last
  BY DEF Ends
<1>2. /\ s \o t \in Seq(States) /\ Len(s \o t) = n + k
      /\ \A i \in 1 .. k : (s \o t)[n + i] = t[i]
  BY <1>1, Joined
<1>3. (s \o t)[n + k] = t[k]
  BY <1>2
<1>4. QED
  BY <1>1, <1>2, <1>3 DEF Ends

LEMMA JoinedHead ==
  ASSUME NEW s, NEW t, NEW n \in Nat, NEW k \in Nat, NEW first, NEW last,
         Ends(s, n, first), Ends(t, k, last), NEW i \in 1 .. n
  PROVE  (s \o t)[i] = s[i]
  BY Joined DEF Ends

LEMMA WalksEnd ==
  /\ Ends(Discovered, 1, "DISCOVERED") /\ Ends(RuleRuns, 5, "INFERENCE_BACKTEST")
  /\ Ends(Initialized, 4, "INITIALIZED") /\ Ends(Trains, 5, "TRAINING")
  /\ Ends(Loads, 6, "ARTIFACT_SAVED")
  /\ Ends(ModelRuns, 8, "INFERENCE_BACKTEST") /\ Trained(ModelRuns)
<1> DEFINE rule == <<"VALIDATED", "CAPABILITIES_NEGOTIATED", "INITIALIZED", "INFERENCE_BACKTEST">>
           reloaded == <<"ARTIFACT_LOADED", "INFERENCE_BACKTEST">>
<1>1. Ends(Discovered, 1, "DISCOVERED") /\ Ends(Initialized, 4, "INITIALIZED")
  BY DEF Ends, Discovered, Initialized, States
<1>2. /\ Ends(<<"TRAINING">>, 1, "TRAINING") /\ Ends(<<"ARTIFACT_SAVED">>, 1, "ARTIFACT_SAVED")
      /\ Ends(rule, 4, "INFERENCE_BACKTEST") /\ Ends(reloaded, 2, "INFERENCE_BACKTEST")
      /\ reloaded[1] = "ARTIFACT_LOADED"
  BY DEF Ends, States
<1> HIDE DEF rule, reloaded
<1>3. Ends(Discovered \o rule, 1 + 4, "INFERENCE_BACKTEST")
  BY <1>1, <1>2, JoinedEnds
<1>4. Ends(Initialized \o <<"TRAINING">>, 4 + 1, "TRAINING")
  BY <1>1, <1>2, JoinedEnds
<1>5. Ends(Trains, 5, "TRAINING")
  BY <1>4 DEF Trains
<1>6. Ends(Trains \o <<"ARTIFACT_SAVED">>, 5 + 1, "ARTIFACT_SAVED")
  BY <1>2, <1>5, JoinedEnds
<1>7. Ends(Loads, 6, "ARTIFACT_SAVED") /\ Loads[5] = "TRAINING"
  <2>1. Loads[5] = Trains[5]
    BY <1>2, <1>5, JoinedHead DEF Loads
  <2>2. QED
    BY <1>5, <1>6, <2>1 DEF Loads, Ends
<1>8. /\ Ends(Loads \o reloaded, 6 + 2, "INFERENCE_BACKTEST")
      /\ (Loads \o reloaded)[5] = Loads[5] /\ (Loads \o reloaded)[6] = Loads[6]
  <2>1. Ends(Loads \o reloaded, 6 + 2, "INFERENCE_BACKTEST")
    BY <1>2, <1>7, JoinedEnds
  <2>2. 5 \in 1 .. 6 /\ 6 \in 1 .. 6 /\ 6 \in Nat /\ 2 \in Nat
    OBVIOUS
  <2>3. \A i \in 1 .. 6 : (Loads \o reloaded)[i] = Loads[i]
    BY <1>2, <1>7, <2>2, JoinedHead, Zenon
  <2>4. QED
    BY <2>1, <2>2, <2>3
<1>9. (Loads \o reloaded)[6 + 1] = "ARTIFACT_LOADED"
  <2>1. /\ Loads \in Seq(States) /\ reloaded \in Seq(States)
        /\ Len(reloaded) = 2 /\ Len(Loads) = 6
    BY <1>2, <1>7 DEF Ends
  <2>2. \A i \in 1 .. Len(reloaded) : (Loads \o reloaded)[Len(Loads) + i] = reloaded[i]
    BY <2>1, Joined, Zenon
  <2>3. 1 \in 1 .. 2
    OBVIOUS
  <2>4. (Loads \o reloaded)[6 + 1] = reloaded[1]
    BY <2>1, <2>2, <2>3, Zenon
  <2>5. QED
    BY <1>2, <2>4
<1>10. /\ Loads \o reloaded = ModelRuns /\ Discovered \o rule = RuleRuns
  BY DEF ModelRuns, RuleRuns, rule, reloaded
<1>11. Trained(ModelRuns)
  BY <1>7, <1>8, <1>9, <1>10 DEF Trained, Ends
<1>12. QED
  BY <1>1, <1>3, <1>5, <1>7, <1>8, <1>10, <1>11

(* The state of a run that goes on, and the one before a failure.           *)
Last(what, statement) ==
  CASE statement = "transform"           -> IF what = "rule" THEN "DISCOVERED" ELSE "INITIALIZED"
    [] statement \in {"train", "saving"} -> "TRAINING"
    [] statement = "loading"             -> "ARTIFACT_SAVED"
    [] statement = "engine"              -> "INFERENCE_BACKTEST"

LEMMA WalkedEnds ==
  ASSUME NEW what \in {"rule", "trainable"}, NEW s \in Statements
  PROVE  /\ \E n \in Nat \ {0} : Ends(Walked(what, s), n, Last(what, s))
         /\ Last(what, s) \in States \ {"FINALIZED", "FAILED"}
<1>1. CASE s = "transform"
  <2>1. CASE what = "rule"
    BY <1>1, <2>1, WalksEnd DEF Walked, Last, States
  <2>2. CASE what # "rule"
    BY <1>1, <2>2, WalksEnd DEF Walked, Last, States
  <2>3. QED
    BY <2>1, <2>2
<1>2. CASE s \in {"train", "saving"}
  BY <1>2, WalksEnd DEF Walked, Last, States
<1>3. CASE s = "loading"
  BY <1>3, WalksEnd DEF Walked, Last, States
<1>4. CASE s = "engine"
  <2>1. /\ Walked(what, s) = RuleRuns \/ Walked(what, s) = ModelRuns
        /\ Last(what, s) = "INFERENCE_BACKTEST"
    BY <1>4 DEF Walked, Last
  <2>2. QED
    BY <2>1, WalksEnd DEF States
<1>5. QED
  BY <1>1, <1>2, <1>3, <1>4 DEF Statements, TrainableOnly

-----------------------------------------------------------------------------
(* The transitions the orchestrator asks for are allowed, so that each of   *)
(* them takes place.                                                        *)
Moves(p, states, next) ==
  /\ history' = [history EXCEPT ![p] = @ \o states]
  /\ todo' = [todo EXCEPT ![p] = next]
  /\ UNCHANGED failure

LEMMA OneTransition ==
  ASSUME NEW p, NEW next, NEW state, Legal(State(p), state), Transition(p, <<state>>, next)
  PROVE  Moves(p, <<state>>, next)
<1> DEFINE walk == <<State(p)>> \o <<state>>
<1>1. Len(<<state>>) = 1 /\ walk[1] = State(p) /\ walk[2] = state
  OBVIOUS
<1> HIDE DEF walk
<1>2. \A i \in 1 .. Len(<<state>>) : Legal(walk[i], walk[i + 1])
  BY <1>1
<1>3. QED
  BY <1>2 DEF Transition, Moves, walk

LEMMA TwoTransitions ==
  ASSUME NEW p, NEW next, NEW one, NEW two, Legal(State(p), one), Legal(one, two),
         Transition(p, <<one, two>>, next)
  PROVE  Moves(p, <<one, two>>, next)
<1> DEFINE walk == <<State(p)>> \o <<one, two>>
<1>1. /\ Len(<<one, two>>) = 2
      /\ walk[1] = State(p) /\ walk[2] = one /\ walk[3] = two
  OBVIOUS
<1> HIDE DEF walk
<1>2. \A i \in 1 .. Len(<<one, two>>) : Legal(walk[i], walk[i + 1])
  BY <1>1
<1>3. QED
  BY <1>2 DEF Transition, Moves, walk

LEMMA FourTransitions ==
  ASSUME NEW p, NEW next, NEW one, NEW two, NEW three, NEW four,
         Legal(State(p), one), Legal(one, two), Legal(two, three), Legal(three, four),
         Transition(p, <<one, two, three, four>>, next)
  PROVE  Moves(p, <<one, two, three, four>>, next)
<1> DEFINE walk == <<State(p)>> \o <<one, two, three, four>>
<1>1. /\ Len(<<one, two, three, four>>) = 4
      /\ walk[1] = State(p) /\ walk[2] = one /\ walk[3] = two /\ walk[4] = three
      /\ walk[5] = four
  OBVIOUS
<1> HIDE DEF walk
<1>2. \A i \in 1 .. Len(<<one, two, three, four>>) : Legal(walk[i], walk[i + 1])
  BY <1>1
<1>3. QED
  BY <1>2 DEF Transition, Moves, walk

LEMMA AllowedWalks ==
  /\ Legal("DISCOVERED", "VALIDATED") /\ Legal("VALIDATED", "CAPABILITIES_NEGOTIATED")
  /\ Legal("CAPABILITIES_NEGOTIATED", "INITIALIZED")
  /\ Legal("INITIALIZED", "INFERENCE_BACKTEST") /\ Legal("INITIALIZED", "TRAINING")
  /\ Legal("TRAINING", "ARTIFACT_SAVED") /\ Legal("ARTIFACT_SAVED", "ARTIFACT_LOADED")
  /\ Legal("ARTIFACT_LOADED", "INFERENCE_BACKTEST")
  /\ Legal("INFERENCE_BACKTEST", "FINALIZED")
  BY DEF Legal, Allowed

(* The state of a run that has begun and is not done.                       *)
LEMMA StateOf ==
  ASSUME RunTypes, NEW p \in Processes, RunOf(p), todo[p] \in Statements
  PROVE  /\ State(p) = Last(kind[p], todo[p])
         /\ State(p) \notin {"FINALIZED", "FAILED"}
<1>1. kind[p] \in {"rule", "trainable"} /\ todo[p] # "done"
  BY DEF RunTypes, Statements, TrainableOnly
<1>2. history[p] = Walked(kind[p], todo[p])
  BY <1>1 DEF RunOf
<1>3. QED
  BY <1>1, <1>2, WalkedEnds DEF State, Ends

-----------------------------------------------------------------------------
(* A step of process p leaves the runs of the others alone.                 *)
OthersRun(p) ==
  \A q \in Processes \ {p} :
    /\ kind'[q] = kind[q] /\ todo'[q] = todo[q] /\ history'[q] = history[q]
    /\ failure'[q] = failure[q] /\ model'[q] = model[q]

StepOfRun(p) == Run(p) \/ BeginRule(p) \/ BeginTrainable(p) \/ CrashRun(p)

(* What it does to the store is a step of the store.                        *)
LEMMA StepAsStore ==
  ASSUME StoreInv, RunInv, NEW p \in Processes, StepOfRun(p)
  PROVE  StepOf(p) \/ UNCHANGED storeVars
<1>1. CASE Reload(p)
  <2>1. kept[p] # None
    BY <1>1 DEF Reload, Ready, RunInv, RunOf, Asked
  <2>2. CallLoad(p, kept[p])
    BY <1>1 DEF Reload
  <2>3. QED
    BY <2>1, <2>2 DEF StepOf
<1>2. CASE \E r \in Requests : Train(p, r)
  BY <1>2 DEF Train, StepOf
<1>3. CASE Call(p) \/ BeginRule(p) \/ BeginTrainable(p) \/ CrashRun(p)
  BY <1>3 DEF StepOf, BeginRule, BeginTrainable, Begin, CrashRun
<1>4. CASE \/ TransformRule(p) \/ TransformTrainable(p) \/ TransformFails(p)
           \/ TrainingFails(p) \/ StoreFails(p) \/ StartInference(p)
           \/ EngineReturns(p) \/ EngineFails(p)
  BY <1>4 DEF TransformRule, TransformTrainable, TransformFails, TrainingFails, StoreFails,
              StartInference, EngineReturns, EngineFails
<1>5. QED
  BY <1>1, <1>2, <1>3, <1>4 DEF StepOfRun, Run

LEMMA StoreMoves ==
  ASSUME StoreInv, RunInv, [OrchestratorNext]_vars
  PROVE  [StoreNext]_storeVars
<1>1. ASSUME NEW p \in Processes, StepOfRun(p) PROVE [StoreNext]_storeVars
  BY <1>1, StepAsStore DEF StepOf, StoreNext
<1>2. QED
  BY <1>1 DEF OrchestratorNext, StepOfRun, StoreNext, vars

-----------------------------------------------------------------------------
LEMMA RunTypesStep ==
  ASSUME StoreInv, RunTypes, NEW p \in Processes, StepOfRun(p)
  PROVE  RunTypes' /\ OthersRun(p)
<1> USE DEF RunTypes, OthersRun, Statements, TrainableOnly
<1>1. ASSUME NEW states, NEW next \in Statements \cup {"done"}, Transition(p, states, next)
      PROVE  /\ todo' \in [Processes -> Statements \cup {"start", "done"}]
             /\ history' = [q \in Processes |-> history'[q]]
             /\ failure' = [q \in Processes |-> failure'[q]]
             /\ \A q \in Processes \ {p} : /\ todo'[q] = todo[q] /\ history'[q] = history[q]
                                           /\ failure'[q] = failure[q]
  <2>1. /\ todo' = [todo EXCEPT ![p] = next] \/ todo' = [todo EXCEPT ![p] = "done"]
        /\ \E h : history' = [history EXCEPT ![p] = h]
        /\ \E f : failure' = [failure EXCEPT ![p] = f]
    <3>1. failure = [failure EXCEPT ![p] = failure[p]]
      OBVIOUS
    <3>2. QED
      BY <1>1, <3>1 DEF Transition
  <2>2. PICK h, f : history' = [history EXCEPT ![p] = h] /\ failure' = [failure EXCEPT ![p] = f]
    BY <2>1
  <2>3. /\ history' = [q \in Processes |-> history'[q]]
        /\ failure' = [q \in Processes |-> failure'[q]]
        /\ \A q \in Processes \ {p} : history'[q] = history[q] /\ failure'[q] = failure[q]
    BY <2>2
  <2>4. /\ todo' \in [Processes -> Statements \cup {"start", "done"}]
        /\ \A q \in Processes \ {p} : todo'[q] = todo[q]
    BY <2>1
  <2>5. QED
    BY <2>3, <2>4
<1>2. ASSUME NEW code, Raise(p, code) PROVE RunTypes' /\ OthersRun(p)
  <2>1. /\ todo' = [todo EXCEPT ![p] = "done"]
        /\ \E h : history' = [history EXCEPT ![p] = h]
        /\ failure' = [failure EXCEPT ![p] = code] /\ UNCHANGED <<kind, model>>
    BY <1>2 DEF Raise
  <2>2. QED
    BY <2>1
<1>3. CASE TransformRule(p) \/ TransformTrainable(p) \/ Reload(p) \/ EngineReturns(p)
  <2>1. /\ \E states : \E next \in Statements \cup {"done"} : Transition(p, states, next)
        /\ UNCHANGED <<kind, model>>
    BY <1>3 DEF TransformRule, TransformTrainable, Reload, EngineReturns
  <2>2. QED
    BY <1>1, <2>1
<1>4. CASE StartInference(p)
  <2>1. loaded[p] \in Content \cup {None}
    BY DEF StoreInv, StoreTypeOK
  <2>2. /\ \E states : \E next \in Statements \cup {"done"} : Transition(p, states, next)
        /\ model' = [model EXCEPT ![p] = loaded[p]] /\ UNCHANGED kind
    BY <1>4 DEF StartInference
  <2>3. QED
    BY <1>1, <2>1, <2>2
<1>5. CASE TransformFails(p) \/ TrainingFails(p) \/ StoreFails(p) \/ EngineFails(p)
  BY <1>2, <1>5 DEF TransformFails, TrainingFails, StoreFails, EngineFails
<1>6. CASE \E r \in Requests : Train(p, r)
  BY <1>6 DEF Train
<1>7. CASE Call(p) /\ UNCHANGED runVars
  BY <1>7 DEF runVars
<1>8. ASSUME NEW what \in {"rule", "trainable"}, NEW states, Begin(p, what, states)
      PROVE  RunTypes' /\ OthersRun(p)
  BY <1>8 DEF Begin
<1>9. CASE CrashRun(p)
  BY <1>9 DEF CrashRun
<1>10. QED
  BY <1>3, <1>4, <1>5, <1>6, <1>7, <1>8, <1>9 DEF StepOfRun, Run, BeginRule, BeginTrainable

LEMMA OtherRuns ==
  ASSUME NEW p \in Processes, OthersRun(p), Others(p) \/ UNCHANGED storeVars,
         NEW q \in Processes \ {p}, RunOf(q)
  PROVE  RunOf(q)'
<1>1. /\ kind'[q] = kind[q] /\ todo'[q] = todo[q] /\ history'[q] = history[q]
      /\ failure'[q] = failure[q] /\ model'[q] = model[q]
  BY DEF OthersRun
<1>2. /\ pc'[q] = pc[q] /\ operation'[q] = operation[q] /\ request'[q] = request[q]
      /\ manifest'[q] = manifest[q] /\ kept'[q] = kept[q] /\ answer'[q] = answer[q]
  BY DEF Others, storeVars, callVars
<1>3. TrainedModel(q)' = TrainedModel(q) /\ Asked(q)' = Asked(q) /\ Succeeded(q)' = Succeeded(q)
  BY <1>1, <1>2 DEF TrainedModel, Asked, Succeeded, Walked
<1>4. \A s : FailedAt(q, s)' = FailedAt(q, s)
  BY <1>1 DEF FailedAt, Walked, CodesOf
<1>5. QED
  BY <1>1, <1>3, <1>4 DEF RunOf, Walked

-----------------------------------------------------------------------------
(* The run that makes the step.                                             *)
LEMMA CodesOfStages ==
  ASSUME RunTypes, NEW p \in Processes, RunOf(p), todo[p] \in Statements \ {"transform"}
  PROVE  ExceptionCode(p) \in CodesOf(todo[p])
<1>1. /\ State(p) = Last(kind[p], todo[p]) /\ kind[p] \in {"rule", "trainable"}
      /\ todo[p] \in TrainableOnly => kind[p] = "trainable"
  BY StateOf DEF RunTypes, RunOf
<1>2. CASE todo[p] \in TrainableOnly
  BY <1>1, <1>2 DEF ExceptionCode, CodeAt, Last, CodesOf, TrainableOnly
<1>3. CASE todo[p] = "engine"
  BY <1>1, <1>3 DEF ExceptionCode, CodeAt, Last, CodesOf
<1>4. QED
  BY <1>2, <1>3 DEF Statements

LEMMA Raised ==
  ASSUME RunTypes, NEW p \in Processes, RunOf(p), todo[p] \in Statements,
         NEW code \in CodesOf(todo[p]), Raise(p, code), pc[p] = "idle", UNCHANGED storeVars
  PROVE  RunOf(p)'
<1>1. /\ history[p] = Walked(kind[p], todo[p]) /\ State(p) \notin {"FINALIZED", "FAILED"}
      /\ todo[p] \in TrainableOnly => kind[p] = "trainable"
  BY StateOf DEF RunOf, Statements, TrainableOnly
<1>2. /\ history'[p] = Append(history[p], "FAILED")
      /\ failure'[p] = code /\ todo'[p] = "done" /\ kind'[p] = kind[p]
      /\ pc'[p] = "idle"
  BY <1>1 DEF RunTypes, Raise, storeVars
<1>3. PICK s \in Statements : s = todo[p]
  OBVIOUS
<1>4. FailedAt(p, s)'
  BY <1>1, <1>2, <1>3 DEF FailedAt, Walked, CodesOf
<1>5. \E t \in Statements : FailedAt(p, t)'
  BY <1>3, <1>4
<1>6. QED
  BY <1>2, <1>5 DEF RunOf, Asked, TrainableOnly

LEMMA Begun ==
  ASSUME RunTypes, StoreTypeOK, NEW p \in Processes,
         BeginRule(p) \/ BeginTrainable(p) \/ CrashRun(p)
  PROVE  RunOf(p)'
<1>1. pc'[p] = "idle"
  BY DEF BeginRule, BeginTrainable, Begin, CrashRun, Restart, StoreTypeOK
<1>2. CASE BeginRule(p) \/ BeginTrainable(p)
  <2>1. /\ todo'[p] = "transform" /\ failure'[p] = "none"
        /\ history'[p] = Walked(kind'[p], "transform")
    BY <1>2 DEF RunTypes, BeginRule, BeginTrainable, Begin, Walked, Discovered, Initialized
  <2>2. QED
    BY <1>1, <2>1 DEF RunOf, Asked, TrainableOnly, Walked
<1>3. CASE CrashRun(p)
  <2>1. /\ todo'[p] = "start" /\ failure'[p] = "none" /\ history'[p] = <<>>
    BY <1>3 DEF RunTypes, CrashRun
  <2>2. QED
    BY <1>1, <2>1 DEF RunOf, Asked, TrainableOnly, Walked
<1>4. QED
  BY <1>2, <1>3

LEMMA Transformed ==
  ASSUME RunTypes, NEW p \in Processes, RunOf(p), TransformRule(p) \/ TransformTrainable(p)
  PROVE  RunOf(p)'
<1>1. /\ todo[p] = "transform" /\ pc'[p] = "idle" /\ failure[p] = "none"
      /\ history[p] = Walked(kind[p], "transform") /\ kind'[p] = kind[p]
      /\ State(p) = Last(kind[p], "transform")
  BY StateOf DEF TransformRule, TransformTrainable, Ready, storeVars, RunOf, Statements
<1>2. CASE TransformRule(p)
  <2>1. /\ kind[p] = "rule" /\ history[p] = Discovered /\ State(p) = "DISCOVERED"
    BY <1>1, <1>2 DEF TransformRule, Walked, Last
  <2>2. Moves(p, <<"VALIDATED", "CAPABILITIES_NEGOTIATED", "INITIALIZED",
                   "INFERENCE_BACKTEST">>, "engine")
    BY <1>2, <2>1, AllowedWalks, FourTransitions DEF TransformRule
  <2>3. history'[p] = RuleRuns /\ todo'[p] = "engine" /\ failure'[p] = "none"
    BY <1>1, <2>1, <2>2 DEF RunTypes, Moves, RuleRuns
  <2>4. QED
    BY <1>1, <2>1, <2>3 DEF RunOf, Asked, TrainedModel, Walked, TrainableOnly
<1>3. CASE TransformTrainable(p)
  <2>1. /\ kind[p] = "trainable" /\ history[p] = Initialized /\ State(p) = "INITIALIZED"
    BY <1>1, <1>3 DEF TransformTrainable, Walked, Last
  <2>2. Moves(p, <<"TRAINING">>, "train")
    BY <1>3, <2>1, AllowedWalks, OneTransition DEF TransformTrainable
  <2>3. history'[p] = Trains /\ todo'[p] = "train" /\ failure'[p] = "none"
    BY <1>1, <2>1, <2>2 DEF RunTypes, Moves, Trains
  <2>4. QED
    BY <1>1, <2>1, <2>3 DEF RunOf, Asked, Walked
<1>4. QED
  BY <1>2, <1>3

LEMMA Stopped ==
  ASSUME RunTypes, NEW p \in Processes, RunOf(p),
         TransformFails(p) \/ TrainingFails(p) \/ StoreFails(p) \/ EngineFails(p)
  PROVE  RunOf(p)'
<1>1. todo[p] \in Statements /\ pc[p] = "idle" /\ UNCHANGED storeVars
  BY DEF TransformFails, TrainingFails, StoreFails, EngineFails, Ready, Statements, TrainableOnly
<1>2. \E code \in CodesOf(todo[p]) : Raise(p, code)
  <2>1. CASE TransformFails(p)
    BY <2>1 DEF TransformFails, Ready, CodesOf
  <2>2. CASE TrainingFails(p)
    <3>1. todo[p] = "train" /\ Raise(p, ExceptionCode(p))
      BY <2>2 DEF TrainingFails, Ready
    <3>2. QED
      BY <1>1, <3>1, CodesOfStages
  <2>3. CASE StoreFails(p)
    <3>1. /\ todo[p] \in {"saving", "loading"} /\ answer[p] \in Refusals
          /\ Raise(p, IF answer[p] = "exception" THEN ExceptionCode(p) ELSE answer[p])
      BY <2>3 DEF StoreFails, Ready
    <3>2. ExceptionCode(p) \in CodesOf(todo[p])
      BY <1>1, <3>1, CodesOfStages
    <3>3. answer[p] # "exception" => answer[p] \in CodesOf(todo[p])
      BY <3>1 DEF CodesOf, StoreCodes, Refusals
    <3>4. QED
      BY <3>1, <3>2, <3>3
  <2>4. CASE EngineFails(p)
    <3>1. /\ todo[p] = "engine"
          /\ \E code \in EngineErrors \cup {ExceptionCode(p)} : Raise(p, code)
      BY <2>4 DEF EngineFails, Ready
    <3>2. ExceptionCode(p) \in CodesOf(todo[p])
      BY <1>1, <3>1, CodesOfStages
    <3>3. EngineErrors \subseteq CodesOf(todo[p])
      BY <3>1 DEF CodesOf
    <3>4. QED
      BY <3>1, <3>2, <3>3
  <2>5. QED
    BY <2>1, <2>2, <2>3, <2>4
<1>3. QED
  BY <1>1, <1>2, Raised

LEMMA Asking ==
  ASSUME StoreInv, RunTypes, NEW p \in Processes, RunOf(p),
         (\E r \in Requests : Train(p, r)) \/ Reload(p)
  PROVE  RunOf(p)'
<1>0. StoreTypeOK
  BY DEF StoreInv
<1>1. CASE \E r \in Requests : Train(p, r)
  <2>1. PICK r \in Requests : Train(p, r)
    BY <1>1
  <2>2. /\ todo[p] = "train" /\ todo'[p] = "saving"
        /\ UNCHANGED <<kind, history, failure, model>>
    BY <2>1 DEF Train, Ready, RunTypes
  <2>3. operation'[p] = "save" /\ answer'[p] # "saved"
    BY <1>0, <2>1 DEF Train, CallSave, Answer, StoreTypeOK
  <2>4. history[p] = Walked(kind[p], "train") /\ failure[p] = "none" /\ kind[p] = "trainable"
    BY <2>2 DEF RunOf, TrainableOnly
  <2>5. QED
    BY <2>2, <2>3, <2>4 DEF RunOf, Asked, Walked
<1>2. CASE Reload(p)
  <2>1. /\ todo[p] = "saving" /\ kept[p] # None /\ failure[p] = "none"
        /\ history[p] = Trains /\ State(p) = "TRAINING" /\ kind[p] = "trainable"
    BY <1>2, StateOf DEF Reload, Ready, RunOf, Asked, Walked, Last, Statements, TrainableOnly
  <2>2. operation'[p] = "load" /\ kept'[p] = kept[p] /\ manifest'[p] = kept[p]
    BY <1>0, <1>2 DEF Reload, CallLoad, StoreTypeOK
  <2>3. Moves(p, <<"ARTIFACT_SAVED">>, "loading") /\ UNCHANGED kind
    BY <1>2, <2>1, AllowedWalks, OneTransition DEF Reload
  <2>4. history'[p] = Loads /\ todo'[p] = "loading" /\ failure'[p] = "none"
    BY <2>1, <2>3 DEF RunTypes, Moves, Loads
  <2>5. QED
    BY <2>1, <2>2, <2>3, <2>4 DEF RunOf, Asked, Walked
<1>3. QED
  BY <1>1, <1>2

(* What a process loads with the manifest its save returned is what it      *)
(* saved, so the engine works with what was trained.                        *)
LEMMA Started ==
  ASSUME StoreInv, RunTypes, NEW p \in Processes, RunOf(p), StartInference(p)
  PROVE  RunOf(p)'
<1>1. /\ todo[p] = "loading" /\ pc[p] = "idle" /\ answer[p] = "loaded" /\ failure[p] = "none"
      /\ kept[p] # None /\ manifest[p] = kept[p] /\ UNCHANGED <<kind, storeVars>>
      /\ history[p] = Loads /\ State(p) = "ARTIFACT_SAVED" /\ kind[p] = "trainable"
  BY StateOf
  DEF StartInference, Ready, RunOf, Asked, Walked, Last, Statements, TrainableOnly
<1>2. loaded[p] = request[p].payload
  <2>1. /\ loaded[p] \in Content /\ Sha256[loaded[p]] = kept[p].sha256
        /\ request[p] \in Request /\ kept[p] = ManifestOf(request[p])
    BY <1>1 DEF StoreInv, CallInv, CallOf
  <2>2. kept[p].sha256 = Sha256[request[p].payload] /\ request[p].payload \in Content
    BY <2>1, ManifestOfRequest
  <2>3. QED
    BY <2>1, <2>2, StoreAssumption
<1>3. Moves(p, <<"ARTIFACT_LOADED", "INFERENCE_BACKTEST">>, "engine")
  BY <1>1, AllowedWalks, TwoTransitions DEF StartInference
<1>4. history'[p] = ModelRuns /\ todo'[p] = "engine" /\ failure'[p] = "none"
  BY <1>1, <1>3 DEF RunTypes, Moves, ModelRuns
<1>5. TrainedModel(p)'
  BY <1>1, <1>2 DEF StartInference, RunTypes, TrainedModel, storeVars, callVars
<1>6. QED
  BY <1>1, <1>4, <1>5 DEF RunOf, Asked, Walked, storeVars, TrainableOnly

LEMMA Returned ==
  ASSUME RunTypes, NEW p \in Processes, RunOf(p), EngineReturns(p)
  PROVE  RunOf(p)'
<1>1. /\ todo[p] = "engine" /\ pc[p] = "idle" /\ failure[p] = "none" /\ TrainedModel(p)
      /\ history[p] = Walked(kind[p], "engine") /\ State(p) = "INFERENCE_BACKTEST"
      /\ UNCHANGED <<kind, model, storeVars>>
  BY StateOf DEF EngineReturns, Ready, RunOf, Last, Statements
<1>2. Moves(p, <<"FINALIZED">>, "done")
  BY <1>1, AllowedWalks, OneTransition DEF EngineReturns
<1>3. /\ history'[p] = Walked(kind[p], "engine") \o <<"FINALIZED">>
      /\ todo'[p] = "done" /\ failure'[p] = "none"
  BY <1>1, <1>2 DEF RunTypes, Moves
<1>4. Succeeded(p)'
  BY <1>1, <1>3 DEF Succeeded, TrainedModel, Walked, storeVars, callVars
<1>5. QED
  BY <1>1, <1>3, <1>4 DEF RunOf, Asked, storeVars, TrainableOnly

(* A step inside a call of the store.                                       *)
LEMMA Calling ==
  ASSUME StoreInv, RunTypes, NEW p \in Processes, RunOf(p), Call(p), UNCHANGED runVars
  PROVE  RunOf(p)'
<1>1. /\ pc[p] # "idle" /\ UNCHANGED <<operation, request>>
  BY DEF Call, FindDirectory, RefuseReuse, Reuse, CreateDirectory, OpenPayload, WritePayload,
         OpenManifest, WriteManifest, WriteFails, Open, At, CheckDirectory, CheckFile,
         ReadFailed, ReadPayload, callVars
<1>2. todo[p] \in {"saving", "loading"} /\ UNCHANGED <<kind, todo, history, failure, model>>
  BY <1>1 DEF RunOf, Asked, runVars
<1>3. CASE todo[p] = "saving"
  <2>1. operation[p] = "save" /\ StoreTypeOK /\ CallOf(p) /\ answer[p] = "none"
    BY <1>1, <1>3 DEF RunOf, Asked, StoreInv, CallInv, CallOf
  <2>2. CASE WriteManifest(p) \/ ReadPayload(p)
    <3>1. request[p] \in Request /\ kept'[p] = ManifestOf(request[p])
      BY <2>1, <2>2
      DEF WriteManifest, ReadPayload, At, CallOf, Saving, Writing, Reading, StoreTypeOK
    <3>2. kept'[p] # None
      BY <3>1, ManifestOfRequest
    <3>3. QED
      BY <1>1, <1>2, <1>3, <2>1, <3>2 DEF RunOf, Asked, Walked
  <2>3. CASE ~(WriteManifest(p) \/ ReadPayload(p))
    <3>1. answer'[p] # "saved"
      BY <2>1, <2>3
      DEF Call, FindDirectory, RefuseReuse, Reuse, CreateDirectory, OpenPayload, WritePayload,
          OpenManifest, WriteFails, Open, At, CheckDirectory, CheckFile,
          ReadFailed, Goto, Answer, StoreTypeOK
    <3>2. QED
      BY <1>1, <1>2, <1>3, <2>1, <3>1 DEF RunOf, Asked, Walked
  <2>4. QED
    BY <2>2, <2>3
<1>4. CASE todo[p] = "loading"
  <2>1. operation[p] = "load" /\ StoreTypeOK /\ CallOf(p) /\ pc[p] \notin Saving
    BY <1>4 DEF RunOf, Asked, StoreInv, CallInv, CallOf
  <2>2. UNCHANGED <<manifest, kept>>
    BY <2>1
    DEF Call, FindDirectory, RefuseReuse, Reuse, CreateDirectory, OpenPayload, WritePayload,
        OpenManifest, WriteManifest, WriteFails, Open, At, CheckDirectory, CheckFile,
        ReadFailed, ReadPayload, Saving, Writing
  <2>3. QED
    BY <1>1, <1>2, <1>4, <2>2 DEF RunOf, Asked, Walked
<1>5. QED
  BY <1>2, <1>3, <1>4

LEMMA RunStep ==
  ASSUME StoreInv, RunInv, NEW p \in Processes, StepOfRun(p)
  PROVE  RunInv'
<1>1. RunTypes /\ RunOf(p) /\ StoreTypeOK
  BY DEF RunInv, StoreInv
<1>2. RunTypes' /\ OthersRun(p)
  BY <1>1, RunTypesStep
<1>3. Others(p) \/ UNCHANGED storeVars
  BY <1>1, StepAsStore, OthersKept
<1>4. ASSUME NEW q \in Processes \ {p} PROVE RunOf(q)'
  BY <1>2, <1>3, OtherRuns DEF RunInv
<1>5. RunOf(p)'
  BY <1>1, Begun, Transformed, Stopped, Asking, Started, Returned, Calling
  DEF StepOfRun, Run
<1>6. QED
  BY <1>2, <1>4, <1>5 DEF RunInv

-----------------------------------------------------------------------------
(* The invariant: the store's, the disk's and the runs'.                    *)
OrchestratorInv == StoreInv /\ DiskInv /\ RunInv

LEMMA OrchestratorStart == OrchestratorInit => OrchestratorInv
<1> SUFFICES ASSUME OrchestratorInit PROVE OrchestratorInv
  OBVIOUS
<1>1. StoreInv /\ DiskInv
  BY StoreStart, DiskStart DEF OrchestratorInit
<1>2. RunTypes
  BY DEF OrchestratorInit, RunTypes
<1>3. ASSUME NEW p \in Processes PROVE RunOf(p)
  BY DEF OrchestratorInit, StoreInit, RunOf, Asked, Walked, TrainableOnly
<1>4. QED
  BY <1>1, <1>2, <1>3 DEF OrchestratorInv, RunInv

LEMMA OrchestratorStep == OrchestratorInv /\ [OrchestratorNext]_vars => OrchestratorInv'
<1> SUFFICES ASSUME OrchestratorInv, [OrchestratorNext]_vars PROVE OrchestratorInv'
  OBVIOUS
<1>1. StoreInv /\ DiskInv /\ RunInv /\ [StoreNext]_storeVars
  BY StoreMoves DEF OrchestratorInv
<1>2. StoreInv' /\ DiskInv'
  BY <1>1, StoreStep, DiskStep
<1>3. RunInv'
  <2>1. ASSUME NEW p \in Processes, StepOfRun(p) PROVE RunInv'
    BY <1>1, <2>1, RunStep
  <2>2. CASE (Damage /\ UNCHANGED runVars) \/ UNCHANGED vars
    <3>1. UNCHANGED <<runVars, pc, callVars, manifest, kept, answer>>
      BY <2>2 DEF Damage, vars, storeVars
    <3>2. RunTypes'
      BY <1>1, <3>1 DEF RunInv, RunTypes, runVars
    <3>3. ASSUME NEW p \in Processes PROVE RunOf(p)'
      <4>1. RunOf(p)
        BY <1>1 DEF RunInv
      <4>2. TrainedModel(p)' = TrainedModel(p) /\ Asked(p)' = Asked(p)
            /\ Succeeded(p)' = Succeeded(p)
        BY <3>1 DEF TrainedModel, Asked, Succeeded, Walked, runVars, callVars
      <4>3. \A s : FailedAt(p, s)' = FailedAt(p, s)
        BY <3>1 DEF FailedAt, Walked, CodesOf, runVars
      <4>4. QED
        BY <3>1, <4>1, <4>2, <4>3 DEF RunOf, Walked, runVars
    <3>4. QED
      BY <3>2, <3>3 DEF RunInv
  <2>3. QED
    BY <2>1, <2>2 DEF OrchestratorNext, StepOfRun
<1>4. QED
  BY <1>2, <1>3 DEF OrchestratorInv

(* Where a run is when it is over.                                          *)
LEMMA Endings ==
  ASSUME RunInv, NEW p \in Processes, todo[p] = "done"
  PROVE  \/ Succeeded(p) /\ State(p) = "FINALIZED"
         \/ \E s \in Statements : /\ FailedAt(p, s) /\ State(p) = "FAILED"
                                  /\ Before(p) = Last(kind[p], s)
<1>0. RunOf(p) /\ kind[p] \in {"rule", "trainable"}
  BY DEF RunInv, RunTypes
<1>1. CASE Succeeded(p)
  <2>1. PICK n \in Nat \ {0} : Ends(Walked(kind[p], "engine"), n, Last(kind[p], "engine"))
    BY <1>0, WalkedEnds DEF Statements
  <2>2. Ends(<<"FINALIZED">>, 1, "FINALIZED")
    BY DEF Ends, States
  <2>3. Ends(history[p], n + 1, "FINALIZED")
    BY <1>1, <2>1, <2>2, JoinedEnds DEF Succeeded
  <2>4. QED
    BY <1>1, <2>3 DEF Ends, State
<1>2. ASSUME NEW s \in Statements, FailedAt(p, s)
      PROVE  State(p) = "FAILED" /\ Before(p) = Last(kind[p], s)
  <2>1. PICK n \in Nat \ {0} : Ends(Walked(kind[p], s), n, Last(kind[p], s))
    BY <1>0, WalkedEnds
  <2> DEFINE walk == Walked(kind[p], s)
  <2>2. walk \in Seq(States) /\ Len(walk) = n /\ walk[n] = Last(kind[p], s)
    BY <2>1 DEF Ends
  <2>3. history[p] = Append(walk, "FAILED") /\ "FAILED" \in States
    BY <1>2 DEF FailedAt, States
  <2> HIDE DEF walk
  <2>4. /\ Len(history[p]) = n + 1 /\ history[p][n + 1] = "FAILED"
        /\ \A i \in 1 .. n : history[p][i] = walk[i]
    BY <2>2, <2>3, Ended
  <2>5. history[p][n] = walk[n] /\ Len(history[p]) - 1 = n
    BY <2>4
  <2>6. QED
    BY <2>2, <2>4, <2>5 DEF State, Before
<1>3. QED
  BY <1>0, <1>1, <1>2 DEF RunOf

(* The orchestrator's variables keep their types: no process is in the      *)
(* middle of a store call but while it saves or reloads.                    *)
THEOREM OrchestratorTypes == OrchestratorSpec => []OrchestratorTypeOK
<1>1. OrchestratorInv => OrchestratorTypeOK
  <2> SUFFICES ASSUME OrchestratorInv PROVE OrchestratorTypeOK
    OBVIOUS
  <2>1. StoreTypeOK /\ RunInv /\ RunTypes
    BY DEF OrchestratorInv, StoreInv, RunInv
  <2>2. ASSUME NEW p \in Processes PROVE history[p] \in Seq(States)
    <3>0. RunOf(p) /\ kind[p] \in {"rule", "trainable"}
      BY <2>1 DEF RunInv, RunTypes
    <3>1. CASE todo[p] = "start"
      <4>1. history[p] = <<>>
        BY <3>0, <3>1 DEF RunOf, Walked
      <4>2. QED
        BY <4>1
    <3>2. CASE todo[p] \in Statements
      <4>1. history[p] = Walked(kind[p], todo[p])
        BY <3>0, <3>2 DEF RunOf, Statements, TrainableOnly
      <4>2. QED
        BY <3>0, <3>2, <4>1, WalkedEnds DEF Ends
    <3>3. CASE todo[p] = "done" /\ Succeeded(p)
      <4>1. Walked(kind[p], "engine") \in Seq(States) /\ <<"FINALIZED">> \in Seq(States)
        BY <3>0, WalkedEnds DEF Ends, Statements, States
      <4>2. QED
        BY <3>3, <4>1, Joined DEF Succeeded
    <3>4. ASSUME NEW s \in Statements, FailedAt(p, s) PROVE history[p] \in Seq(States)
      <4>1. Walked(kind[p], s) \in Seq(States) /\ "FAILED" \in States
        BY <3>0, WalkedEnds DEF Ends, States
      <4>2. QED
        BY <3>4, <4>1, Ended DEF FailedAt
    <3>5. QED
      BY <2>1, <3>0, <3>1, <3>2, <3>3, <3>4 DEF RunOf, RunTypes
  <2>3. history \in [Processes -> Seq(States)]
    BY <2>1, <2>2 DEF RunTypes
  <2>4. todo \in [Processes -> {"start", "transform", "train", "saving", "loading",
                                "engine", "done"}]
    BY <2>1 DEF RunTypes, Statements, TrainableOnly
  <2>5. QED
    BY <2>1, <2>3, <2>4 DEF OrchestratorTypeOK, RunTypes, RunInv, RunOf, Asked
<1>2. QED
  BY <1>1, OrchestratorStart, OrchestratorStep, PTL DEF OrchestratorSpec

(* run_rule and run_trainable never ask the lifecycle for a transition that *)
(* _ALLOWED forbids, and a run that ends is finalized or failed.            *)
THEOREM LegalTransitions == OrchestratorSpec => []TransitionsLegal
<1>1. OrchestratorInv => TransitionsLegal
  <2> SUFFICES ASSUME OrchestratorInv, NEW p \in Processes
               PROVE  /\ failure[p] # "LIFECYCLE_TRANSITION_INVALID"
                      /\ todo[p] = "done" =>
                           State(p) = IF failure[p] = "none" THEN "FINALIZED" ELSE "FAILED"
    BY DEF TransitionsLegal
  <2>1. RunInv /\ RunOf(p)
    BY DEF OrchestratorInv, RunInv
  <2>2. CASE todo[p] # "done"
    BY <2>1, <2>2 DEF RunOf
  <2>3. ASSUME NEW s \in Statements
        PROVE  CodesOf(s) \cap {"none", "LIFECYCLE_TRANSITION_INVALID"} = {}
    BY EngineErrorsAssumption DEF CodesOf, StoreCodes, Statements, TrainableOnly
  <2>4. CASE todo[p] = "done"
    BY <2>1, <2>3, <2>4, Endings DEF Succeeded, FailedAt
  <2>5. QED
    BY <2>2, <2>4
<1>2. QED
  BY <1>1, OrchestratorStart, OrchestratorStep, PTL DEF OrchestratorSpec

LEMMA Stretch ==
  ASSUME NEW s \in Seq(States), Len(s) >= 7, Trained(s)
  PROVE  SubSeq(s, 5, 7) = <<"TRAINING", "ARTIFACT_SAVED", "ARTIFACT_LOADED">>
<1>1. \A i \in 5 .. 7 : s[i] \in States
  OBVIOUS
<1>2. /\ SubSeq(s, 5, 7) \in Seq(States) /\ Len(SubSeq(s, 5, 7)) = 3
      /\ \A i \in 1 .. 3 : SubSeq(s, 5, 7)[i] = s[5 + i - 1]
  <2>1. 5 \in Int /\ 7 \in Int /\ 7 - 5 + 1 = 3 /\ 5 <= 7
    OBVIOUS
  <2>2. /\ SubSeq(s, 5, 7) \in Seq(States)
        /\ Len(SubSeq(s, 5, 7)) = IF 5 <= 7 THEN 7 - 5 + 1 ELSE 0
        /\ \A i \in 1 .. 7 - 5 + 1 : SubSeq(s, 5, 7)[i] = s[5 + i - 1]
    BY <1>1, <2>1, SubSeqProperties
  <2>3. QED
    BY <2>1, <2>2
<1>3. QED
  <2> DEFINE t == SubSeq(s, 5, 7)
  <2>1. t \in Seq(States) /\ Len(t) = 3 /\ t[1] = s[5] /\ t[2] = s[6] /\ t[3] = s[7]
    BY <1>2
  <2> HIDE DEF t
  <2>2. t = <<s[5], s[6], s[7]>>
    BY <2>1
  <2>3. QED
    BY <2>2 DEF Trained, t

(* A run that has the engine's state.                                       *)
LEMMA Inferring ==
  ASSUME RunInv, NEW p \in Processes, history[p] # <<>>,
         State(p) \in {"INFERENCE_BACKTEST", "FINALIZED"}
  PROVE  /\ TrainedModel(p)
         /\ \/ State(p) = "INFERENCE_BACKTEST" /\ history[p] = Walked(kind[p], "engine")
            \/ State(p) = "FINALIZED" /\ history[p] = Walked(kind[p], "engine") \o <<"FINALIZED">>
<1>0. RunTypes /\ RunOf(p)
  BY DEF RunInv
<1>1. todo[p] # "start"
  BY <1>0 DEF RunOf, Walked
<1>2. CASE todo[p] = "done"
  BY <1>2, Endings DEF Succeeded
<1>3. CASE todo[p] \in Statements
  <2>1. Last(kind[p], todo[p]) = "INFERENCE_BACKTEST" /\ State(p) = "INFERENCE_BACKTEST"
    BY <1>0, <1>3, StateOf
  <2>2. todo[p] = "engine"
    BY <1>3, <2>1 DEF Last, Statements, TrainableOnly
  <2>3. QED
    BY <1>0, <2>1, <2>2 DEF RunOf
<1>4. QED
  BY <1>0, <1>1, <1>2, <1>3 DEF RunTypes

(* run_trainable calls the engine with exactly the model its own train      *)
(* saved and its own load read back, whatever other runs did to the store   *)
(* and whatever was damaged in it.                                          *)
THEOREM InferenceFollowsTraining == OrchestratorSpec => []InferenceOnTrained
<1>1. OrchestratorInv => InferenceOnTrained
  <2> SUFFICES ASSUME OrchestratorInv, NEW p \in Processes,
                      kind[p] = "trainable", history[p] # <<>>,
                      State(p) \in {"INFERENCE_BACKTEST", "FINALIZED"}
               PROVE  /\ model[p] = request[p].payload
                      /\ <<"TRAINING", "ARTIFACT_SAVED", "ARTIFACT_LOADED">>
                           = SubSeq(history[p], 5, 7)
    BY DEF InferenceOnTrained
  <2>1. /\ TrainedModel(p)
        /\ history[p] = ModelRuns \/ history[p] = ModelRuns \o <<"FINALIZED">>
    BY Inferring DEF OrchestratorInv, Walked
  <2>2. Ends(ModelRuns, 8, "INFERENCE_BACKTEST") /\ Trained(ModelRuns)
    BY WalksEnd
  <2>3. ASSUME NEW h, h = ModelRuns \/ h = ModelRuns \o <<"FINALIZED">>
        PROVE  h \in Seq(States) /\ Len(h) >= 7 /\ Trained(h)
    <3>1. CASE h = ModelRuns
      <4>1. ModelRuns \in Seq(States) /\ Len(ModelRuns) >= 7
        BY <2>2 DEF Ends
      <4>2. QED
        BY <2>2, <3>1, <4>1, Zenon
    <3>2. CASE h = ModelRuns \o <<"FINALIZED">>
      <4>1. Ends(<<"FINALIZED">>, 1, "FINALIZED") /\ 8 \in Nat /\ 1 \in Nat
        BY DEF Ends, States
      <4>2. \A i \in 1 .. 8 : (ModelRuns \o <<"FINALIZED">>)[i] = ModelRuns[i]
        BY <2>2, <4>1, JoinedHead, Zenon
      <4>3. h[5] = ModelRuns[5] /\ h[6] = ModelRuns[6] /\ h[7] = ModelRuns[7]
        <5>1. 5 \in 1 .. 8 /\ 6 \in 1 .. 8 /\ 7 \in 1 .. 8
          OBVIOUS
        <5>2. QED
          BY <3>2, <4>2, <5>1, Zenon
      <4>4. Ends(h, 8 + 1, "FINALIZED")
        BY <2>2, <3>2, <4>1, JoinedEnds
      <4>5. QED
        BY <2>2, <4>3, <4>4 DEF Ends, Trained
    <3>3. QED
      BY <2>3, <3>1, <3>2
  <2>4. SubSeq(history[p], 5, 7) = <<"TRAINING", "ARTIFACT_SAVED", "ARTIFACT_LOADED">>
    BY <2>1, <2>3, Stretch
  <2>5. QED
    BY <2>1, <2>4 DEF TrainedModel
<1>2. QED
  BY <1>1, OrchestratorStart, OrchestratorStep, PTL DEF OrchestratorSpec

(* The code of the violation a run ends with tells the stage of the         *)
(* lifecycle at which it failed (_lifecycle_failure_code, and the codes of  *)
(* the store and of the engine).                                            *)
THEOREM CodesTellStages == OrchestratorSpec => []CodeTellsStage
<1>1. OrchestratorInv => CodeTellsStage
  <2> SUFFICES ASSUME OrchestratorInv, NEW p \in Processes, failure[p] # "none"
        PROVE /\ failure[p] = "TRAINING_FAILED"  => Before(p) = "TRAINING"
              /\ failure[p] = "INFERENCE_FAILED" => Before(p) = "ARTIFACT_SAVED"
              /\ failure[p] \in EngineErrors \cup {"BACKTEST_FAILED"}
                   => Before(p) = "INFERENCE_BACKTEST"
              /\ failure[p] \in {"ARTIFACT_NOT_FOUND", "ARTIFACT_HASH_MISMATCH"}
                   => Before(p) \in {"TRAINING", "ARTIFACT_SAVED"}
              /\ Before(p) = "INFERENCE_BACKTEST"
                   => failure[p] \in EngineErrors \cup {"BACKTEST_FAILED"}
    BY DEF CodeTellsStage
  <2>1. RunInv /\ RunOf(p) /\ todo[p] = "done"
    BY DEF OrchestratorInv, RunInv, RunOf
  <2>2. PICK s \in Statements : FailedAt(p, s) /\ Before(p) = Last(kind[p], s)
    BY <2>1, Endings DEF Succeeded
  <2>3. failure[p] \in CodesOf(s)
    BY <2>2 DEF FailedAt
  <2>4. CASE s = "transform"
    BY <2>2, <2>3, <2>4, EngineErrorsAssumption DEF CodesOf, Last
  <2>5. CASE s \in {"train", "saving"}
    BY <2>2, <2>3, <2>5, EngineErrorsAssumption DEF CodesOf, StoreCodes, Last
  <2>6. CASE s = "loading"
    BY <2>2, <2>3, <2>6, EngineErrorsAssumption DEF CodesOf, StoreCodes, Last
  <2>7. CASE s = "engine"
    BY <2>2, <2>3, <2>7, EngineErrorsAssumption DEF CodesOf, Last
  <2>8. QED
    BY <2>4, <2>5, <2>6, <2>7 DEF Statements, TrainableOnly
<1>2. QED
  BY <1>1, OrchestratorStart, OrchestratorStep, PTL DEF OrchestratorSpec

(* With the names of the bundled strategies every artifact is whole.        *)
WholeDisk(d) ==
  LET place == <<d, ManifestName>> IN
  place \in DOMAIN files /\ files[place] \in Manifest
    => files[place].artifact_id = d /\ Whole(files[place])

LEMMA AllWhole ==
  ASSUME DiskInv, damage = 0
  PROVE  \A d \in Ids : WholeDisk(d)
  BY TrainingsAssumption DEF DiskInv, ManifestDisk, WholeDisk, Apart

(* The artifact that a finished run reports is whole in the store as long   *)
(* as nothing is damaged, whatever other runs store, reuse or leave behind. *)
THEOREM ReportedIsWhole == OrchestratorSpec => []ReportedArtifactWhole
<1>1. OrchestratorInv => ReportedArtifactWhole
  <2> SUFFICES ASSUME OrchestratorInv, damage = 0, NEW p \in Processes,
                      kind[p] = "trainable", history[p] # <<>>, State(p) = "FINALIZED"
               PROVE  Whole(kept[p])
    BY DEF ReportedArtifactWhole
  <2>1. kept[p] # None
    BY Inferring DEF OrchestratorInv, TrainedModel
  <2>2. /\ StoreInv /\ DiskInv
        /\ Holds(files, ManifestFile(kept[p]), kept[p])
    BY <2>1 DEF OrchestratorInv, DiskInv, KnownDisk
  <2>3. kept[p] \in Manifest /\ kept[p].artifact_id \in Ids
    BY <2>1, <2>2, ManifestOfRequest DEF StoreInv, CallInv, CallOf
  <2>4. QED
    BY <2>2, <2>3, AllWhole DEF WholeDisk, Holds, ManifestFile
<1>2. QED
  BY <1>1, OrchestratorStart, OrchestratorStep, PTL DEF OrchestratorSpec

-----------------------------------------------------------------------------
(* The registry: what the files of the store publish.                       *)
Artifact(id) ==
  [manifest |-> files[<<id, ManifestName>>],
   payload  |-> files[Target(files[<<id, ManifestName>>])]]

Artifacts == [id \in Published |-> Artifact(id)]

LEMMA KnownPublished ==
  ASSUME StoreInv, \A d \in Ids : WholeDisk(d),
         NEW m \in Manifest, Holds(files, ManifestFile(m), m)
  PROVE  /\ m.artifact_id \in Published
         /\ Artifacts[m.artifact_id].manifest = m
         /\ Artifacts[m.artifact_id].payload = files[Target(m)]
<1>1. m.artifact_id \in Ids /\ files[<<m.artifact_id, ManifestName>>] = m
  BY DEF Manifest, Holds, ManifestFile
<1>2. Target(m) \in DOMAIN files
  BY <1>1 DEF WholeDisk, Whole, Holds, ManifestFile
<1>3. m.artifact_id \in Published
  BY <1>1, <1>2 DEF Published, Holds, ManifestFile
<1>4. QED
  BY <1>1, <1>3 DEF Artifacts, Artifact

(* A process that writes does so in a directory that publishes nothing.     *)
LEMMA WrittenElsewhere ==
  ASSUME StoreInv, DiskInv, damage = 0, NEW p \in Processes, Places(p),
         NEW r, r = request[p]
  PROVE  /\ r \in Request /\ pc[p] \in Writing
         /\ ManifestFile(r) \notin DOMAIN files \/ files[ManifestFile(r)] \in Content
         /\ \A x \in DOMAIN files : x[1] # r.artifact_id => x \in DOMAIN files'
                                                            /\ files'[x] = files[x]
         /\ \A x \in DOMAIN files' : x[1] # r.artifact_id => x \in DOMAIN files
<1>1. pc[p] \in Writing /\ r \in Request /\ WriterDisk(p)
  BY DEF StoreInv, CallInv, CallOf, Saving, Writing, Places, OpenPayload, WritePayload,
         OpenManifest, WriteManifest, Open, At, DiskInv
<1>2. \E place \in {Target(r), ManifestFile(r)} : \E c : files' = Put(files, place, c)
  BY DEF Places, OpenPayload, WritePayload, OpenManifest, WriteManifest, Open
<1>3. ManifestFile(r) \notin DOMAIN files \/ files[ManifestFile(r)] \in Content
  BY <1>1 DEF WriterDisk, Unfinished, ManifestFile
<1>4. QED
  BY <1>1, <1>2, <1>3 DEF Put, Target, ManifestFile

LEMMA OthersPublished ==
  ASSUME StoreInv, \A d \in Ids : WholeDisk(d), NEW own,
         \A x \in DOMAIN files : x[1] # own => x \in DOMAIN files' /\ files'[x] = files[x],
         \A x \in DOMAIN files' : x[1] # own => x \in DOMAIN files,
         NEW id \in Ids \ {own}
  PROVE  /\ id \in Published' <=> id \in Published
         /\ id \in Published => Artifact(id)' = Artifact(id)
<1> DEFINE place == <<id, ManifestName>>
<1>1. place[1] = id
  OBVIOUS
<1>2. place \in DOMAIN files' <=> place \in DOMAIN files
  BY <1>1
<1>3. place \in DOMAIN files => files'[place] = files[place]
  BY <1>1
<1>4. CASE place \in DOMAIN files /\ files[place] \in Manifest
  <2>1. files[place].artifact_id = id /\ Target(files[place]) \in DOMAIN files
    BY <1>4 DEF WholeDisk, Whole
  <2>2. Target(files[place])[1] = id
    BY <2>1 DEF Target
  <2>3. /\ Target(files[place]) \in DOMAIN files'
        /\ files'[Target(files[place])] = files[Target(files[place])]
    BY <2>1, <2>2
  <2>4. id \in Published /\ id \in Published'
    BY <1>2, <1>3, <1>4, <2>1, <2>3 DEF Published, Target
  <2>5. Artifact(id)' = Artifact(id)
    BY <1>3, <1>4, <2>3 DEF Artifact, Target
  <2>6. QED
    BY <2>4, <2>5
<1>5. CASE ~(place \in DOMAIN files /\ files[place] \in Manifest)
  BY <1>2, <1>3, <1>5 DEF Published
<1>6. QED
  BY <1>4, <1>5

(* A file of an artifact in the making publishes nothing.                   *)
LEMMA DraftsUnpublished ==
  ASSUME StoreInv, DiskInv, damage = 0, NEW p \in Processes,
         OpenPayload(p) \/ WritePayload(p) \/ OpenManifest(p),
         NEW r, r = request[p]
  PROVE  Artifacts' = Artifacts
<1>1. /\ r \in Request
      /\ ManifestFile(r) \notin DOMAIN files \/ files[ManifestFile(r)] \in Content
      /\ \A x \in DOMAIN files : x[1] # r.artifact_id => x \in DOMAIN files'
                                                         /\ files'[x] = files[x]
      /\ \A x \in DOMAIN files' : x[1] # r.artifact_id => x \in DOMAIN files
  BY WrittenElsewhere DEF Places
<1>2. \A d \in Ids : WholeDisk(d)
  BY AllWhole
<1>3. ManifestFile(r) \notin DOMAIN files' \/ files'[ManifestFile(r)] \in Content
  <2>1. r.payload \in Content /\ Torn \in Content
    BY <1>1, ManifestOfRequest DEF Content
  <2>2. \/ files' = Put(files, Target(r), Torn)
        \/ files' = Put(files, Target(r), r.payload)
        \/ files' = Put(files, ManifestFile(r), Torn)
    BY DEF OpenPayload, WritePayload, OpenManifest, Open
  <2>3. QED
    BY <1>1, <2>1, <2>2 DEF Put
<1>4. r.artifact_id \notin Published /\ r.artifact_id \notin Published'
  <2>1. \A c \in Content : c \notin Manifest
    BY StoreAssumption
  <2>2. QED
    BY <1>1, <1>3, <2>1 DEF Published, ManifestFile
<1>5. Published' = Published
  BY <1>1, <1>2, <1>4, OthersPublished DEF Published
<1>6. \A id \in Published : Artifact(id)' = Artifact(id)
  <2>1. \A id \in Published : id \in Ids \ {r.artifact_id}
    BY <1>4 DEF Published
  <2>2. QED
    BY <1>1, <1>2, <2>1, OthersPublished
<1>7. QED
  BY <1>5, <1>6 DEF Artifacts

(* The manifest, written last, publishes the artifact.                      *)
LEMMA ManifestPublishes ==
  ASSUME StoreInv, DiskInv, damage = 0, NEW p \in Processes, WriteManifest(p),
         NEW r, r = request[p]
  PROVE  /\ r.artifact_id \in Ids \ Published /\ Published' = Published \cup {r.artifact_id}
         /\ \A id \in Published : Artifacts'[id] = Artifacts[id]
         /\ Artifacts'[r.artifact_id] = [manifest |-> ManifestOf(r), payload |-> r.payload]
<1>1. /\ r \in Request
      /\ ManifestFile(r) \notin DOMAIN files \/ files[ManifestFile(r)] \in Content
      /\ \A x \in DOMAIN files : x[1] # r.artifact_id => x \in DOMAIN files'
                                                         /\ files'[x] = files[x]
      /\ \A x \in DOMAIN files' : x[1] # r.artifact_id => x \in DOMAIN files
  BY WrittenElsewhere DEF Places
<1>2. \A d \in Ids : WholeDisk(d)
  BY AllWhole
<1>3. /\ ManifestOf(r) \in Manifest /\ Target(ManifestOf(r)) = Target(r)
      /\ r.artifact_id \in Ids /\ Target(r) # ManifestFile(r)
      /\ Holds(files, Target(r), r.payload)
  <2>1. ManifestOf(r) \in Manifest /\ Target(ManifestOf(r)) = Target(r) /\ r # None
        /\ r.artifact_id \in Ids
    BY <1>1, ManifestOfRequest
  <2>2. Apart(r)
    BY <2>1, TrainingsAssumption DEF StoreInv, AskedInv, Apart
  <2>3. QED
    BY <2>1, <2>2 DEF DiskInv, WriterDisk, WriteManifest, At, Target, ManifestFile, Apart
<1>4. files' = Put(files, ManifestFile(r), ManifestOf(r))
  BY DEF WriteManifest
<1>5. Holds(files', ManifestFile(r), ManifestOf(r)) /\ Holds(files', Target(r), r.payload)
  BY <1>2, <1>3, <1>4 DEF Put, Holds
<1>6. r.artifact_id \notin Published
  <2>1. \A c \in Content : c \notin Manifest
    BY StoreAssumption
  <2>2. QED
    BY <1>1, <2>1 DEF Published, ManifestFile
<1>7. r.artifact_id \in Published' /\ Artifact(r.artifact_id)' =
                                        [manifest |-> ManifestOf(r), payload |-> r.payload]
  BY <1>3, <1>5 DEF Published, Artifact, Holds, ManifestFile, Target
<1>8. \A id \in Ids \ {r.artifact_id} : /\ id \in Published' <=> id \in Published
                                        /\ id \in Published => Artifact(id)' = Artifact(id)
  BY <1>1, <1>2, OthersPublished
<1>9. Published' = Published \cup {r.artifact_id}
  BY <1>7, <1>8 DEF Published
<1>10. \A id \in Published : id \in Published' /\ Artifact(id)' = Artifact(id)
  BY <1>6, <1>8, <1>9 DEF Published
<1>11. QED
  BY <1>3, <1>6, <1>7, <1>9, <1>10 DEF Artifacts

LEMMA RegistryStart == OrchestratorInit => Registry!RegistryInit
<1> SUFFICES ASSUME OrchestratorInit PROVE Registry!RegistryInit
  OBVIOUS
<1>1. /\ Published = {} /\ damage = 0
      /\ kept = [p \in Processes |-> None] /\ loaded = [p \in Processes |-> None]
  BY DEF OrchestratorInit, StoreInit, Published
<1>2. Artifacts = [id \in {} |-> None]
  BY <1>1 DEF Artifacts
<1>3. QED
  BY <1>1, <1>2 DEF Registry!RegistryInit, Artifacts, Artifact

(* A call that returns an artifact or reads one.                            *)
LEMMA ReadsPublished ==
  ASSUME StoreInv, DiskInv, RunInv, damage = 0, NEW p \in Processes, ReadPayload(p)
  PROVE  \E id \in Published :
           \/ kept' = [kept EXCEPT ![p] = Artifacts[id].manifest] /\ UNCHANGED loaded
           \/ loaded' = [loaded EXCEPT ![p] = Artifacts[id].payload] /\ UNCHANGED kept
<1>1. /\ pc[p] = "read" /\ RunOf(p) /\ CallOf(p) /\ KnownDisk(p)
      /\ \A d \in Ids : WholeDisk(d)
  BY AllWhole DEF RunInv, StoreInv, CallInv, DiskInv, ReadPayload, At
<1>2. /\ manifest[p] \in Manifest
      /\ operation[p] # "save" => kept[p] # None /\ manifest[p] = kept[p]
  BY <1>1 DEF RunOf, Asked, CallOf, Reading
<1>3. Holds(files, ManifestFile(manifest[p]), manifest[p])
  BY <1>1, <1>2 DEF KnownDisk, Reading
<1>4. /\ manifest[p].artifact_id \in Published
      /\ Artifacts[manifest[p].artifact_id].manifest = manifest[p]
      /\ Artifacts[manifest[p].artifact_id].payload = files[Target(manifest[p])]
  BY <1>1, <1>2, <1>3, KnownPublished
<1>5. QED
  BY <1>4 DEF ReadPayload

(* What a step does to what processes know, where it publishes nothing.     *)
LEMMA QuietForgets ==
  ASSUME StoreInv, NEW p \in Processes, StepOf(p), ~WriteManifest(p), ~ReadPayload(p)
  PROVE  /\ kept' \in {kept, [kept EXCEPT ![p] = None]}
         /\ loaded' \in {loaded, [loaded EXCEPT ![p] = None]}
  BY DEF StepOf, Call, FindDirectory, RefuseReuse, Reuse, CreateDirectory, OpenPayload,
         WritePayload, OpenManifest, Open, WriteFails, CheckDirectory, CheckFile, ReadFailed,
         Restart, CallSave, CallLoad

LEMMA StepsDamageNothing ==
  ASSUME NEW p \in Processes, StepOf(p)
  PROVE  UNCHANGED damage
  BY DEF StepOf, Call, FindDirectory, RefuseReuse, Reuse, CreateDirectory, OpenPayload,
         WritePayload, OpenManifest, WriteManifest, Open, WriteFails, CheckDirectory,
         CheckFile, ReadFailed, ReadPayload, Restart, CallSave, CallLoad

LEMMA RegistryMoves ==
  ASSUME StoreInv, DiskInv, RunInv, NEW p \in Processes, StepOf(p), damage = 0
  PROVE  Registry!RegistryNext
<1>1. damage' = 0
  BY StepsDamageNothing
<1>2. CASE WriteManifest(p)
  <2>1. PICK r : r = request[p]
    OBVIOUS
  <2>2. /\ r.artifact_id \in Ids \ Published /\ Published' = Published \cup {r.artifact_id}
        /\ \A id \in Published : Artifacts'[id] = Artifacts[id]
        /\ Artifacts'[r.artifact_id] = [manifest |-> ManifestOf(r), payload |-> r.payload]
    BY <1>2, <2>1, ManifestPublishes
  <2>3. /\ ManifestOf(r).artifact_id = r.artifact_id
        /\ ManifestOf(r).sha256 = Sha256[r.payload]
        /\ kept' = [kept EXCEPT ![p] = ManifestOf(r)] /\ UNCHANGED loaded
    BY <1>2, <2>1 DEF WriteManifest, ManifestOf
  <2>4. DOMAIN Artifacts = Published /\ DOMAIN Artifacts' = Published'
    BY DEF Artifacts
  <2>5. Registry!Publish(p, r.artifact_id)
    BY <2>2, <2>3, <2>4 DEF Registry!Publish, Artifacts, Artifact
  <2>6. QED
    BY <1>1, <2>2, <2>5 DEF Registry!RegistryNext
<1>3. CASE ReadPayload(p)
  <2>1. PICK id \in Published :
          \/ kept' = [kept EXCEPT ![p] = Artifacts[id].manifest] /\ UNCHANGED loaded
          \/ loaded' = [loaded EXCEPT ![p] = Artifacts[id].payload] /\ UNCHANGED kept
    BY <1>3, ReadsPublished
  <2>2. Artifacts' = Artifacts
    BY <1>3 DEF ReadPayload, diskVars, Artifacts, Artifact, Published, Target
  <2>3. Registry!Return(p, id) \/ Registry!Read(p, id)
    BY <2>1, <2>2 DEF Registry!Return, Registry!Read, Artifacts, Artifact
  <2>4. QED
    BY <1>1, <2>1, <2>3 DEF Registry!RegistryNext
<1>4. CASE ~WriteManifest(p) /\ ~ReadPayload(p)
  <2>1. Artifacts' = Artifacts
    <3>1. CASE ~Places(p)
      <4>1. UNCHANGED files
        BY <3>1, Quiet
      <4>2. QED
        BY <4>1 DEF Artifacts, Artifact, Published, Target
    <3>2. CASE OpenPayload(p) \/ WritePayload(p) \/ OpenManifest(p)
      BY <3>2, DraftsUnpublished
    <3>3. QED
      BY <1>4, <3>1, <3>2 DEF Places
  <2>2. Registry!Forget(p)
    BY <1>4, <2>1, QuietForgets DEF Registry!Forget, Artifacts, Artifact
  <2>3. QED
    BY <1>1, <2>2 DEF Registry!RegistryNext
<1>5. QED
  BY <1>2, <1>3, <1>4

LEMMA RegistryStep ==
  ASSUME OrchestratorInv, [OrchestratorNext]_vars
  PROVE  [Registry!RegistryNext]_(Registry!registryVars)
<1>1. StoreInv /\ DiskInv /\ RunInv
  BY DEF OrchestratorInv
<1>2. CASE UNCHANGED storeVars
  BY <1>2 DEF storeVars, diskVars, Registry!registryVars, Published, Target
<1>3. ASSUME damage' # 0 PROVE Registry!RegistryNext
  BY <1>3 DEF Registry!RegistryNext
<1>4. CASE Damage
  <2>1. damage' # 0
    BY <1>1, <1>4 DEF Damage, StoreInv, StoreTypeOK
  <2>2. QED
    BY <1>3, <2>1
<1>5. ASSUME NEW p \in Processes, StepOf(p) PROVE Registry!RegistryNext
  <2>1. UNCHANGED damage
    BY <1>5, StepsDamageNothing
  <2>2. QED
    BY <1>1, <1>3, <1>5, <2>1, RegistryMoves
<1>6. QED
  BY <1>1, <1>2, <1>4, <1>5, StepAsStore DEF OrchestratorNext, StepOfRun, vars

(* The store under the orchestrator implements the registry of artifacts:   *)
(* published once and whole, never changed, and every save and load of      *)
(* every process answers with what is published, until a file is damaged.   *)
THEOREM StoreIsRegistry == OrchestratorSpec => ImplementsRegistry
<1>1. OrchestratorInit => OrchestratorInv /\ Registry!RegistryInit
  BY OrchestratorStart, RegistryStart
<1>2. OrchestratorInv /\ [OrchestratorNext]_vars
        => OrchestratorInv' /\ [Registry!RegistryNext]_(Registry!registryVars)
  BY OrchestratorStep, RegistryStep
<1>3. QED
  BY <1>1, <1>2, PTL DEF OrchestratorSpec, ImplementsRegistry, Registry!RegistrySpec
=============================================================================
