---------------------------- MODULE ArtifactStore ----------------------------
(***************************************************************************)
(* ArtifactStore (runtime/artifacts.py): directories of artifacts shared   *)
(* by processes.                                                           *)
(*                                                                         *)
(* save_bytes creates the directory of the artifact, writes the payload    *)
(* and then the manifest; when the directory is there already it reads the *)
(* manifest, compares it with the call and checks the payload.  load_bytes *)
(* compares the file a manifest declares with its digest.  Every system    *)
(* call is a step: another process may run, and the process may crash,     *)
(* between any two.  Files may also be damaged from outside.               *)
(*                                                                         *)
(* A manifest declares one file, as every manifest of save_bytes does.     *)
(* provenance stands for the fields that are compared as they are: the     *)
(* strategy, its version, kind, framework, dataset, seed and metadata.     *)
(*                                                                         *)
(* A logical name may be "manifest.json": nothing refuses it, the manifest *)
(* is then written over the payload, and the save returns all the same.    *)
(***************************************************************************)
EXTENDS Integers

CONSTANTS
  Processes,       \* processes that share the root directory
  Ids, Names,      \* artifact identifiers and logical names
  Unsafe,          \* those that _validate_component refuses
  Provenances,
  Payloads,        \* what strategies save
  Torn,            \* the content of a file between its opening and its closing
  Sha256, Size,    \* digest and length of a content
  Requests,        \* the arguments save_bytes may be called with
  Strangers,       \* manifests that no save of this store returned
  MaxDamage,       \* bound: files damaged from outside
  None

ManifestName == "manifest.json"

Content == Payloads \cup {Torn}

Request == [artifact_id: Ids, provenance: Provenances, logical_name: Names,
            payload: Payloads]

Manifest == [artifact_id: Ids, provenance: Provenances, logical_name: Names,
             sha256: {Sha256[c] : c \in Content}, size_bytes: {Size[c] : c \in Content}]

ASSUME StoreAssumption ==
  /\ Requests \subseteq Request /\ Strangers \subseteq Manifest
  /\ \A c, d \in Content : Sha256[c] = Sha256[d] => c = d
  /\ Torn \notin Payloads /\ MaxDamage \in Nat
  /\ None \notin Payloads \cup {Torn} \cup Request \cup Manifest
  /\ Content \cap Manifest = {}

VARIABLES
  directories,  \* artifact directories that exist
  files,        \* <<directory, name>> -> content, for the files that exist
  damage,       \* files damaged so far
  pc,           \* the next system call of every process
  operation,    \* "save" or "load": what the process was last asked to do
  request,      \* the arguments of its last save
  manifest,     \* the manifest it is loading, or loaded last
  kept,         \* the manifest its last save returned
  loaded,       \* the payload its last load returned
  answer        \* how its last call ended

diskVars == <<directories, files>>
callVars == <<operation, request>>
storeVars == <<diskVars, damage, pc, callVars, manifest, kept, loaded, answer>>

ManifestOf(r) ==
  [artifact_id |-> r.artifact_id, provenance |-> r.provenance,
   logical_name |-> r.logical_name, sha256 |-> Sha256[r.payload],
   size_bytes |-> Size[r.payload]]

Target(r)       == <<r.artifact_id, r.logical_name>>
ManifestFile(r) == <<r.artifact_id, ManifestName>>

Put(f, place, value) ==
  [x \in DOMAIN f \cup {place} |-> IF x = place THEN value ELSE f[x]]

StoreInit ==
  /\ directories = {} /\ files = [f \in {} |-> None] /\ damage = 0
  /\ pc = [p \in Processes |-> "idle"]
  /\ operation = [p \in Processes |-> "none"]
  /\ request = [p \in Processes |-> None]
  /\ manifest = [p \in Processes |-> None]
  /\ kept = [p \in Processes |-> None]
  /\ loaded = [p \in Processes |-> None]
  /\ answer = [p \in Processes |-> "none"]

At(p, call)   == pc[p] = call
Goto(p, call) == pc' = [pc EXCEPT ![p] = call] /\ UNCHANGED answer

Answer(p, how) ==
  /\ pc' = [pc EXCEPT ![p] = "idle"]
  /\ answer' = [answer EXCEPT ![p] = how]

-----------------------------------------------------------------------------
CallSave(p, r) ==
  /\ At(p, "idle")
  /\ operation' = [operation EXCEPT ![p] = "save"]
  /\ request' = [request EXCEPT ![p] = r]
  /\ kept' = [kept EXCEPT ![p] = None]
  /\ IF {r.artifact_id, r.logical_name} \cap Unsafe # {}
     THEN Answer(p, "exception")
     ELSE pc' = [pc EXCEPT ![p] = "exists"] /\ answer' = [answer EXCEPT ![p] = "none"]
  /\ UNCHANGED <<diskVars, damage, manifest, loaded>>

FindDirectory(p) ==
  /\ At(p, "exists")
  /\ Goto(p, IF request[p].artifact_id \in directories THEN "reuse" ELSE "create")
  /\ UNCHANGED <<diskVars, damage, callVars, manifest, kept, loaded>>

(* A slip: the digest and the size are not compared.                        *)
SlipSameProvenance(r, place) ==
  /\ place \in DOMAIN files /\ files[place] \in Manifest
  /\ files[place].provenance = r.provenance
  /\ files[place].logical_name = r.logical_name

(* The manifest on the disk is the one this call would have written.        *)
Reusable(r, place) == place \in DOMAIN files /\ files[place] = ManifestOf(r)

(* A slip: an artifact that cannot be validated is written anew.           *)
SlipRepairs(p) ==
  /\ At(p, "reuse") /\ ~Reusable(request[p], ManifestFile(request[p]))
  /\ Goto(p, "open_payload")
  /\ UNCHANGED <<diskVars, damage, callVars, manifest, kept, loaded>>

(* An absent or unreadable manifest and one of another artifact end alike.  *)
RefuseReuse(p) ==
  /\ At(p, "reuse") /\ ~Reusable(request[p], ManifestFile(request[p]))
  /\ Answer(p, "ARTIFACT_HASH_MISMATCH")
  /\ UNCHANGED <<diskVars, damage, callVars, manifest, kept, loaded>>

Reuse(p) ==
  /\ At(p, "reuse") /\ Reusable(request[p], ManifestFile(request[p]))
  /\ manifest' = [manifest EXCEPT ![p] = files[ManifestFile(request[p])]]
  /\ Goto(p, "is_dir")
  /\ UNCHANGED <<diskVars, damage, callVars, kept, loaded>>

(* Two slips: mkdir(exist_ok=True); the directory is left to the first file.*)
SlipSharesDirectory(p) ==
  /\ At(p, "create")
  /\ directories' = directories \cup {request[p].artifact_id}
  /\ Goto(p, "open_payload")
  /\ UNCHANGED <<files, damage, callVars, manifest, kept, loaded>>

SlipNoDirectory(p) ==
  /\ At(p, "create")
  /\ Goto(p, "open_payload")
  /\ UNCHANGED <<diskVars, damage, callVars, manifest, kept, loaded>>

(* mkdir(exist_ok=False)                                                    *)
CreateDirectory(p) ==
  /\ At(p, "create")
  /\ IF request[p].artifact_id \in directories
     THEN Answer(p, "exception") /\ UNCHANGED directories
     ELSE /\ directories' = directories \cup {request[p].artifact_id}
          /\ Goto(p, "open_payload")
  /\ UNCHANGED <<files, damage, callVars, manifest, kept, loaded>>

(* Writing a file opens (and empties) it first.                             *)
Open(p, call, place, next) ==
  /\ At(p, call)
  /\ files' = Put(files, place, Torn)
  /\ Goto(p, next)
  /\ UNCHANGED <<directories, damage, callVars, manifest, kept, loaded>>

OpenPayload(p)  == Open(p, "open_payload", Target(request[p]), "write_payload")
OpenManifest(p) == Open(p, "open_manifest", ManifestFile(request[p]), "write_manifest")

WritePayload(p) ==
  /\ At(p, "write_payload")
  /\ files' = Put(files, Target(request[p]), request[p].payload)
  /\ Goto(p, "open_manifest")
  /\ UNCHANGED <<directories, damage, callVars, manifest, kept, loaded>>

WriteManifest(p) ==
  /\ At(p, "write_manifest")
  /\ files' = Put(files, ManifestFile(request[p]), ManifestOf(request[p]))
  /\ kept' = [kept EXCEPT ![p] = ManifestOf(request[p])]
  /\ Answer(p, "saved")
  /\ UNCHANGED <<directories, damage, callVars, manifest, loaded>>

(* A call of the system fails: the disk is full, for one.                   *)
WriteFails(p) ==
  /\ pc[p] \in {"create", "open_payload", "write_payload", "open_manifest", "write_manifest"}
  /\ Answer(p, "exception")
  /\ UNCHANGED <<diskVars, damage, callVars, manifest, kept, loaded>>

-----------------------------------------------------------------------------
CallLoad(p, m) ==
  /\ At(p, "idle")
  /\ operation' = [operation EXCEPT ![p] = "load"]
  /\ manifest' = [manifest EXCEPT ![p] = m]
  /\ loaded' = [loaded EXCEPT ![p] = None]
  /\ IF m.artifact_id \in Unsafe
     THEN Answer(p, "exception")
     ELSE pc' = [pc EXCEPT ![p] = "is_dir"] /\ answer' = [answer EXCEPT ![p] = "none"]
  /\ UNCHANGED <<diskVars, damage, request, kept>>

CheckDirectory(p) ==
  /\ At(p, "is_dir")
  /\ IF manifest[p].artifact_id \in directories
     THEN Goto(p, "is_file") ELSE Answer(p, "ARTIFACT_NOT_FOUND")
  /\ UNCHANGED <<diskVars, damage, callVars, manifest, kept, loaded>>

CheckFile(p) ==
  /\ At(p, "is_file")
  /\ CASE manifest[p].logical_name \in Unsafe      -> Answer(p, "exception")
       [] Target(manifest[p]) \in DOMAIN files      -> Goto(p, "read")
       [] OTHER                                      -> Answer(p, "ARTIFACT_NOT_FOUND")
  /\ UNCHANGED <<diskVars, damage, callVars, manifest, kept, loaded>>

(* A slip: the length decides.                                              *)
SlipSameSize(m, content) == content \in Content /\ Size[content] = m.size_bytes

(* The digest decides; size_bytes is not looked at.                         *)
Verified(m, content) == content \in Content /\ Sha256[content] = m.sha256

ReadFailed(p) ==
  /\ At(p, "read")
  /\ \/ Target(manifest[p]) \notin DOMAIN files /\ Answer(p, "exception")
     \/ /\ Target(manifest[p]) \in DOMAIN files
        /\ ~Verified(manifest[p], files[Target(manifest[p])])
        /\ Answer(p, "ARTIFACT_HASH_MISMATCH")
  /\ UNCHANGED <<diskVars, damage, callVars, manifest, kept, loaded>>

(* A load within a save discards the payload and returns the manifest.      *)
ReadPayload(p) ==
  /\ At(p, "read") /\ Target(manifest[p]) \in DOMAIN files
  /\ Verified(manifest[p], files[Target(manifest[p])])
  /\ IF operation[p] = "save"
     THEN /\ kept' = [kept EXCEPT ![p] = manifest[p]]
          /\ Answer(p, "saved") /\ UNCHANGED loaded
     ELSE /\ loaded' = [loaded EXCEPT ![p] = files[Target(manifest[p])]]
          /\ Answer(p, "loaded") /\ UNCHANGED kept
  /\ UNCHANGED <<diskVars, damage, callVars, manifest>>

-----------------------------------------------------------------------------
(* The process ends or dies, in the middle of a call or not, and another    *)
(* takes its place; the disk stays as it is.                                *)
Restart(p) ==
  /\ pc' = [pc EXCEPT ![p] = "idle"]
  /\ operation' = [operation EXCEPT ![p] = "none"]
  /\ request' = [request EXCEPT ![p] = None]
  /\ manifest' = [manifest EXCEPT ![p] = None]
  /\ kept' = [kept EXCEPT ![p] = None]
  /\ loaded' = [loaded EXCEPT ![p] = None]
  /\ answer' = [answer EXCEPT ![p] = "none"]
  /\ UNCHANGED <<diskVars, damage>>

(* A file is overwritten or removed behind the store's back.                *)
Damage ==
  /\ damage < MaxDamage
  /\ damage' = damage + 1
  /\ \E f \in DOMAIN files :
       \/ \E c \in Content \cup Strangers : files' = [files EXCEPT ![f] = c]
       \/ files' = [x \in DOMAIN files \ {f} |-> files[x]]
  /\ UNCHANGED <<directories, pc, callVars, manifest, kept, loaded, answer>>

(* A process inside a call.                                                 *)
Call(p) ==
  \/ FindDirectory(p) \/ RefuseReuse(p) \/ Reuse(p) \/ CreateDirectory(p)
  \/ OpenPayload(p) \/ WritePayload(p) \/ OpenManifest(p) \/ WriteManifest(p)
  \/ WriteFails(p)
  \/ CheckDirectory(p) \/ CheckFile(p) \/ ReadFailed(p) \/ ReadPayload(p)

StoreNext ==
  \/ Damage
  \/ \E p \in Processes :
       \/ Call(p) \/ Restart(p)
       \/ \E r \in Requests : CallSave(p, r)
       \/ \E m \in Strangers \cup ({kept[p]} \ {None}) : CallLoad(p, m)

StoreSpec == StoreInit /\ [][StoreNext]_storeVars

-----------------------------------------------------------------------------
Calls == {"idle", "exists", "reuse", "create", "open_payload", "write_payload",
          "open_manifest", "write_manifest", "is_dir", "is_file", "read"}

Refusals == {"ARTIFACT_NOT_FOUND", "ARTIFACT_HASH_MISMATCH", "exception"}

(* The types of the disk and of the calls in progress; every file lies in   *)
(* a directory of the store.                                                *)
StoreTypeOK ==
  /\ directories \subseteq Ids
  /\ DOMAIN files \subseteq directories \X (Names \cup {ManifestName})
  /\ files \in [DOMAIN files -> Content \cup Manifest]
  /\ damage \in 0 .. MaxDamage
  /\ pc \in [Processes -> Calls]
  /\ operation \in [Processes -> {"none", "save", "load"}]
  /\ request \in [Processes -> Request \cup {None}]
  /\ manifest \in [Processes -> Manifest \cup {None}]
  /\ kept \in [Processes -> Manifest \cup {None}]
  /\ loaded \in [Processes -> Content \cup {None}]
  /\ answer \in [Processes -> Refusals \cup {"none", "saved", "loaded"}]

(* What a process loads with the manifest of its own save is what it saved: *)
(* never what another process stored under the identifier, a payload cut    *)
(* short by a crash, or a damaged one, whatever came in between.            *)
LoadsWhatItSaved ==
  \A p \in Processes :
    answer[p] = "loaded" /\ manifest[p] = kept[p] => loaded[p] = request[p].payload

Whole(m) ==
  /\ Target(m) \in DOMAIN files
  /\ files[Target(m)] \in Payloads /\ Sha256[files[Target(m)]] = m.sha256

(* The manifest is the mark of a finished save: as long as nothing is       *)
(* damaged, an artifact with a manifest has the whole payload it declares,  *)
(* so a crash or a race never leaves a part that passes for a whole.  The   *)
(* one exception is a payload named as the manifest, which is gone.         *)
ManifestMeansWhole ==
  damage = 0 =>
    \A f \in DOMAIN files :
      f[2] = ManifestName /\ files[f] \in Manifest =>
        /\ files[f].artifact_id = f[1]
        /\ files[f].logical_name # ManifestName => Whole(files[f])

(* As long as nothing is damaged, the manifest a save returned can always   *)
(* be loaded, whatever other processes save or crash in the meantime; it    *)
(* never can when its payload was named as the manifest.                    *)
SavedIsLoadable ==
  damage = 0 =>
    \A p \in Processes :
      kept[p] # None =>
        LET again == operation[p] = "load" /\ manifest[p] = kept[p] IN
        IF kept[p].logical_name = ManifestName
        THEN again => answer[p] # "loaded"
        ELSE Whole(kept[p]) /\ (again => answer[p] \notin Refusals)

(* Saving the same content again is idempotent: with no damage a save is    *)
(* refused as a different one only if a different one is ever requested.    *)
RefusedOnlyForOthers ==
  \A p \in Processes :
    operation[p] = "save" /\ answer[p] = "ARTIFACT_HASH_MISMATCH" /\ damage = 0 =>
      \E r \in Requests : r.artifact_id = request[p].artifact_id /\ r # request[p]
=============================================================================
