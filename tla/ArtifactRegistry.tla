--------------------------- MODULE ArtifactRegistry ---------------------------
(***************************************************************************)
(* What the artifact store promises, with no files and no steps: an        *)
(* artifact is published once, with the payload its manifest declares, and *)
(* never changes; a save returns and a load reads what is published.  The  *)
(* promise ends when a file is damaged from outside.                       *)
(***************************************************************************)
CONSTANTS Processes, Ids, None, Sha256

VARIABLES sound,      \* nothing has been damaged
          published,  \* identifier -> its manifest and its payload
          kept,       \* process -> the manifest its last save returned
          read        \* process -> the payload its last load returned

registryVars == <<sound, published, kept, read>>

RegistryInit ==
  /\ sound = TRUE /\ published = [id \in {} |-> None]
  /\ kept = [p \in Processes |-> None] /\ read = [p \in Processes |-> None]

(* The end of the first save of an artifact.                                *)
Publish(p, id) ==
  /\ id \notin DOMAIN published
  /\ DOMAIN published' = DOMAIN published \cup {id}
  /\ \A other \in DOMAIN published : published'[other] = published[other]
  /\ published'[id].manifest.artifact_id = id
  /\ published'[id].manifest.sha256 = Sha256[published'[id].payload]
  /\ kept' = [kept EXCEPT ![p] = published'[id].manifest]
  /\ UNCHANGED read

Return(p, id) ==
  /\ kept' = [kept EXCEPT ![p] = published[id].manifest]
  /\ UNCHANGED <<published, read>>

Read(p, id) ==
  /\ read' = [read EXCEPT ![p] = published[id].payload]
  /\ UNCHANGED <<published, kept>>

(* A call begins, or the process crashes.                                   *)
Forget(p) ==
  /\ kept' \in {kept, [kept EXCEPT ![p] = None]}
  /\ read' \in {read, [read EXCEPT ![p] = None]}
  /\ UNCHANGED published

RegistryNext ==
  \/ /\ sound /\ sound'
     /\ \E p \in Processes :
          \/ Forget(p)
          \/ \E id \in Ids : Publish(p, id)
          \/ \E id \in DOMAIN published : Return(p, id) \/ Read(p, id)
  \/ ~sound'

RegistrySpec == RegistryInit /\ [][RegistryNext]_registryVars
=============================================================================
