---------------------------- MODULE ProjectStore ----------------------------
(***************************************************************************)
(* Uploaded projects (project_store.py and the upload route of api.py).    *)
(* A project is an artifact, a directory named by the fingerprint of its   *)
(* sources and shared by every upload of them, and a metadata file of its  *)
(* own.  The route runs on the event loop of its server without waiting    *)
(* between extraction and metadata, so a server handles one upload at a    *)
(* time; create provides for another server on the same data directory.    *)
(* A project id is new with every upload, so the upload stands for it, and *)
(* metadata that exists already is never met.                              *)
(***************************************************************************)
EXTENDS ProjectUpload, TLC

CONSTANTS
  Uploads, Servers,
  Archives,   \* what may be uploaded
  Encoders,   \* versions of the library that makes previews
  MaxFaults,  \* bound: storage errors and restarts
  MaxDamage,  \* bound: artifacts damaged on the disk
  None

ASSUME BoundsAssumption == {MaxFaults, MaxDamage} \subseteq Nat
ASSUME ArchivesAssumption == Archives \subseteq Seq(Entry)

VARIABLES
  up,        \* each upload: phase, server, extracted tree, indexed version, why it was refused;
             \* bytes and manifests are history
  artifacts, \* artifacts/<fingerprint>: the files and previews found there
  versions,  \* versions/<id>.json: the metadata of each upload
  encoder,   \* of each server
  faults, damage,
  hurt       \* history: uploads whose artifact was damaged after it was checked

vars == <<up, artifacts, versions, encoder, faults, damage, hurt>>

New == [phase |-> "new", server |-> None, tree |-> {}, version |-> None, why |-> "none",
        bytes |-> 0, manifests |-> 0]

Working == {"indexed", "copying", "copied"}
Idle(s) == \A u \in Uploads : up[u].server = s => up[u].phase \notin Working

Init ==
  /\ up = [u \in Uploads |-> New]
  /\ artifacts = << >>
  /\ versions = [u \in Uploads |-> None]
  /\ encoder \in [Servers -> Encoders]
  /\ \A s, t \in Servers : encoder[s] = encoder[t]
  /\ faults = 0 /\ damage = 0
  /\ hurt = {}

Refused(record, why) == [record EXCEPT !.phase = "rejected", !.why = why, !.tree = {}, !.version = None]
-----------------------------------------------------------------------------
(* _artifact_for, on which get, artifact_path and thumbnail_path rest: the *)
(* sources and every preview the version names.                            *)

\* Mutant: an artifact that is there is taken as it is.
VerifiesUnread(version) == version.fingerprint \in DOMAIN artifacts

Verifies(version) ==
  /\ version.fingerprint \in DOMAIN artifacts
  /\ Fingerprint(artifacts[version.fingerprint].files) = version.fingerprint
  /\ version.thumbnails \subseteq artifacts[version.fingerprint].thumbnails
-----------------------------------------------------------------------------
(* The upload route.                                                       *)

\* What may come out of an extraction, computed once.
Extracted == {Extract(a) : a \in Archives}

Receive(u, s, extracted) ==
  LET tree == extracted.tree
      record == [New EXCEPT !.server = s, !.bytes = extracted.bytes, !.manifests = extracted.manifests]
      error == IF extracted.error # "none" THEN extracted.error ELSE IndexError(tree)
  IN  /\ up[u].phase = "new" /\ Idle(s)
      /\ up' = [up EXCEPT ![u] =
                  IF error # "none" THEN Refused(record, error)
                  ELSE [record EXCEPT !.phase = "indexed", !.tree = tree,
                                      !.version = IndexUploadedProject(tree, encoder[s])]]
      /\ UNCHANGED <<artifacts, versions, encoder, faults, damage, hurt>>

\* The artifact is there: it serves if it verifies.
UseExisting(u) ==
  up' = [up EXCEPT ![u] = IF Verifies(@.version) THEN [@ EXCEPT !.phase = "copied"]
                          ELSE Refused(@, "integrity")]

\* _copy_artifact looks for the target and copies to a temporary directory.
CopyArtifact(u) ==
  /\ up[u].phase = "indexed"
  /\ IF up[u].version.fingerprint \in DOMAIN artifacts THEN UseExisting(u)
     ELSE up' = [up EXCEPT ![u].phase = "copying"]
  /\ UNCHANGED <<artifacts, versions, encoder, faults, damage, hurt>>

WithArtifact(fingerprint, artifact) ==
  [f \in DOMAIN artifacts \cup {fingerprint} |-> IF f = fingerprint THEN artifact ELSE artifacts[f]]

\* Mutant: a target that came up meanwhile is an error.
ReplaceArtifactOnce(u) ==
  LET version == up[u].version
  IN  /\ up[u].phase = "copying"
      /\ IF version.fingerprint \in DOMAIN artifacts
         THEN up' = [up EXCEPT ![u] = Refused(@, "storage")] /\ UNCHANGED artifacts
         ELSE /\ artifacts' = WithArtifact(version.fingerprint,
                   [files |-> up[u].tree, thumbnails |-> version.thumbnails])
              /\ up' = [up EXCEPT ![u].phase = "copied"]
      /\ UNCHANGED <<versions, encoder, faults, damage, hurt>>

\* os.replace moves the copy into place; it fails if another server was first.
ReplaceArtifact(u) ==
  LET version == up[u].version
  IN  /\ up[u].phase = "copying"
      /\ IF version.fingerprint \in DOMAIN artifacts
         THEN UseExisting(u) /\ UNCHANGED artifacts
         ELSE /\ artifacts' = WithArtifact(version.fingerprint,
                   [files |-> up[u].tree, thumbnails |-> version.thumbnails])
              /\ up' = [up EXCEPT ![u].phase = "copied"]
      /\ UNCHANGED <<versions, encoder, faults, damage, hurt>>

\* _write_metadata; the temporary file beside it is never read.
WriteMetadata(u) ==
  /\ up[u].phase = "copied"
  /\ versions' = [versions EXCEPT ![u] = up[u].version]
  /\ up' = [up EXCEPT ![u].phase = "created", ![u].tree = {}]
  /\ UNCHANGED <<artifacts, encoder, faults, damage, hurt>>

\* An OSError anywhere in create is answered like an invalid project.
StorageError(u) ==
  /\ up[u].phase \in Working /\ faults < MaxFaults
  /\ up' = [up EXCEPT ![u] = Refused(@, "storage")]
  /\ faults' = faults + 1
  /\ UNCHANGED <<artifacts, versions, encoder, damage, hurt>>

\* A server stops, and is started again with any version of its libraries.
Restart(s) ==
  /\ faults < MaxFaults
  /\ \E e \in Encoders : encoder' = [encoder EXCEPT ![s] = e]
  /\ up' = [u \in Uploads |-> IF up[u].server = s /\ up[u].phase \in Working
                              THEN [Refused(up[u], "none") EXCEPT !.phase = "lost"] ELSE up[u]]
  /\ faults' = faults + 1
  /\ UNCHANGED <<artifacts, versions, damage, hurt>>

\* The environment: a source file or a preview of an artifact is lost.
Damage(f) ==
  /\ damage < MaxDamage /\ f \in DOMAIN artifacts
  /\ \/ \E x \in artifacts[f].files : artifacts' = [artifacts EXCEPT ![f].files = @ \ {x}]
     \/ \E x \in artifacts[f].thumbnails : artifacts' = [artifacts EXCEPT ![f].thumbnails = @ \ {x}]
  /\ damage' = damage + 1
  /\ hurt' = hurt \cup {u \in Uploads : /\ up[u].phase \in {"copied", "created"}
                                        /\ up[u].version.fingerprint = f}
  /\ UNCHANGED <<up, versions, encoder, faults>>

Next ==
  \/ \E u \in Uploads, s \in Servers, x \in Extracted : Receive(u, s, x)
  \/ \E u \in Uploads : CopyArtifact(u) \/ ReplaceArtifact(u) \/ WriteMetadata(u) \/ StorageError(u)
  \/ \E s \in Servers : Restart(s)
  \/ \E f \in DOMAIN artifacts : Damage(f)

Spec == Init /\ [][Next]_vars
-----------------------------------------------------------------------------
(* Properties.                                                             *)

\* A project the server has accepted can be read from then on, with its
\* previews, unless its files are damaged after they were checked: metadata
\* is never written for an artifact that is missing, of other sources or with
\* other previews.
AcceptedStayReadable ==
  \A u \in Uploads : versions[u] # None /\ u \notin hurt =>
    \E f \in DOMAIN artifacts :
      /\ f = versions[u].fingerprint
      /\ f = SourcePaths(artifacts[f].files)
      /\ versions[u].thumbnails \subseteq artifacts[f].thumbnails

\* A valid project is refused only after a storage error, a restart or a
\* damage: two servers that receive it at once do not get in each other's way.
UndisturbedUploadsAreAccepted ==
  faults = 0 /\ damage = 0 => \A u \in Uploads : up[u].why \notin {"integrity", "storage"}

\* In an accepted archive every manifest lies in a directory of the root:
\* indexing finds as many packages as were validated, none twice.
AcceptedRootIsWhole ==
  \A u \in Uploads : up[u].version # None =>
    up[u].manifests > 0 /\ Cardinality(up[u].version.packages) = up[u].manifests

\* Whatever an archive declares, unpacking it never holds more than one file
\* beyond the limit on the disk.
DiskUseIsBounded == \A u \in Uploads : up[u].bytes <= MaxTotal + MaxFile
=============================================================================
