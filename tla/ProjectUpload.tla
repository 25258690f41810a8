---------------------------- MODULE ProjectUpload ----------------------------
(***************************************************************************)
(* How a ZIP is checked, unpacked and indexed (project_upload.py and       *)
(* uploaded_project.py).  The work of one upload happens in a directory of *)
(* its own, so it is described by operators on an archive: a sequence of   *)
(* entries                                                                 *)
(*   path     the parts of the name safe_relative_path returns, <<>> when  *)
(*            the name is refused                                          *)
(*   kind     "file", "dir", "link", or "locked" for one that cannot be    *)
(*            opened                                                       *)
(*   size, packed   what the archive declares                              *)
(*   real     how many bytes unpacking yields                              *)
(*   content  what the file holds                                          *)
(***************************************************************************)
EXTENDS Integers, SequencesExt

CONSTANTS
  MaxCompressed, MaxTotal, MaxEntries, MaxFile, MaxRatio, \* UploadLimits
  Ignored,   \* _IGNORED_DIRECTORIES
  Images     \* content that encode_webp_preview can read

ASSUME LimitsAssumption == {MaxCompressed, MaxTotal, MaxEntries, MaxFile, MaxRatio} \subseteq Nat

Entry ==
  [path : Seq(STRING), kind : {"file", "dir", "link", "locked"},
   size : Nat, packed : Nat, real : Nat, content : STRING]

Manifest == "package.xml"

\* Content of a manifest: a package with an id, a package without one.
PackageXml == {"package", "anonymous"}

\* The first error of a sequence of checks, "none" if they all pass.
FirstError(errors) ==
  LET bad == {i \in DOMAIN errors : errors[i] # "none"}
  IN  IF bad = {} THEN "none" ELSE errors[Min(bad)]

Check(error, raised) == IF raised THEN error ELSE "none"

Sums(seq) ==
  LET sum[n \in 0..Len(seq)] == IF n = 0 THEN 0 ELSE sum[n - 1] + seq[n]
  IN  sum

SumUpTo(seq, n) == Sums(seq)[n]
SumOf(seq) == SumUpTo(seq, Len(seq))

\* Everything but a file counts nothing.
Counted(entry, bytes) == IF entry.kind = "file" THEN bytes ELSE 0
Sizes(archive) == [i \in DOMAIN archive |-> Counted(archive[i], archive[i].size)]
PackedSizes(archive) == [i \in DOMAIN archive |-> Counted(archive[i], archive[i].packed)]
RealSizes(archive) == [i \in DOMAIN archive |-> Counted(archive[i], archive[i].real)]
-----------------------------------------------------------------------------
(* _validate_entries: what the archive declares, before anything is        *)
(* unpacked.                                                               *)

EntryError(archive, i) ==
  LET e == archive[i]
  IN  FirstError(<<
        Check("unsafe_archive", \/ e.path = <<>>
                                \/ \E j \in 1..(i - 1) : archive[j].path = e.path
                                \/ e.kind \in {"link", "locked"}),
        Check("archive_too_large", e.kind = "file" /\ (e.size > MaxFile \/ SumUpTo(Sizes(archive), i) > MaxTotal))>>)

ValidateEntries(archive) ==
  LET total == SumOf(Sizes(archive))
      packed == SumOf(PackedSizes(archive))
  IN  FirstError(<<Check("archive_too_large", Len(archive) > MaxEntries),
                   FirstError([i \in DOMAIN archive |-> EntryError(archive, i)]),
                   Check("archive_too_large", total > 0 /\ total > MaxRatio * packed)>>)
-----------------------------------------------------------------------------
(* extract_project_zip: each file is copied under the limits again.        *)

\* A name that is a file for one entry and a directory for another.
Blocked(archive, i) ==
  \E j \in 1..(i - 1) :
    /\ archive[j].kind = "file"
    /\ IsPrefix(archive[j].path, archive[i].path) \/ IsPrefix(archive[i].path, archive[j].path)

\* Mutant: _copy_entry trusts the declared size.
CopiedUncounted(archive, i) == IF Blocked(archive, i) THEN 0 ELSE Counted(archive[i], archive[i].real)

\* The bytes _copy_entry writes of a file: it stops at the limit.
Copied(archive, i) ==
  IF Blocked(archive, i) THEN 0 ELSE Counted(archive[i], Min({archive[i].real, MaxFile}))

CopyError(archive, i) ==
  FirstError(<<
    Check("unsafe_archive", archive[i].kind = "file" /\ Blocked(archive, i)),
    Check("archive_too_large", /\ archive[i].kind = "file"
                               /\ archive[i].real > MaxFile \/ SumUpTo(RealSizes(archive), i) > MaxTotal)>>)

CopyErrors(archive) == [i \in DOMAIN archive |-> CopyError(archive, i)]

BeforeUnpacking(archive) ==
  FirstError(<<Check("archive_too_large",
                     SumOf([i \in DOMAIN archive |-> archive[i].packed]) > MaxCompressed),
               ValidateEntries(archive)>>)

\* How many bytes are on the disk when the extraction ends or fails.
BytesWritten(archive) ==
  LET copied == [i \in DOMAIN archive |-> Copied(archive, i)]
      failed == {i \in DOMAIN archive : CopyErrors(archive)[i] # "none"}
  IN  IF BeforeUnpacking(archive) # "none" THEN 0
      ELSE SumUpTo(copied, IF failed = {} THEN Len(archive) ELSE Min(failed))
-----------------------------------------------------------------------------
(* _project_root: the packages lie at the top or in one wrapping folder.   *)

Files(archive) == {f \in Range(archive) : f.kind = "file"}
Manifests(files) == {f \in files : Len(f.path) >= 2 /\ Last(f.path) = Manifest}
Depths(files) == {Len(f.path) - 2 : f \in Manifests(files)}

\* Mutant: packages at both depths are accepted.
RootErrorMixed(files) ==
  Check("invalid_fgui_project",
        \/ Manifests(files) = {}
        \/ Depths(files) \ {0, 1} # {}
        \/ Max(Depths(files)) = 1 /\ Cardinality({f.path[1] : f \in files}) > 1
        \/ \E f \in Manifests(files) : f.content \notin PackageXml)

RootError(files) ==
  Check("invalid_fgui_project",
        \/ Manifests(files) = {}
        \/ Depths(files) \ {0, 1} # {} \/ Cardinality(Depths(files)) # 1
        \/ Max(Depths(files)) = 1 /\ Cardinality({f.path[1] : f \in files}) > 1
        \/ \E f \in Manifests(files) : f.content \notin PackageXml)

\* What lies under the root, as pairs of a relative path and a content.
Tree(archive) ==
  LET files == Files(archive)
      depth == Max(Depths(files))
  IN  {<<SubSeq(f.path, 1 + depth, Len(f.path)), f.content>> : f \in files}

ExtractError(archive) ==
  LET unpacking == FirstError(<<BeforeUnpacking(archive), FirstError(CopyErrors(archive))>>)
  IN  IF unpacking # "none" THEN unpacking ELSE RootError(Files(archive))

\* The outcome; bytes and manifests are history: what was written, and how
\* many packages were validated.
Extract(archive) ==
  LET error == ExtractError(archive)
  IN  [error |-> error, tree |-> IF error = "none" THEN Tree(archive) ELSE {},
       bytes |-> BytesWritten(archive), manifests |-> Cardinality(Manifests(Files(archive)))]
-----------------------------------------------------------------------------
(* index_uploaded_project.                                                 *)

SourcePaths(tree) == {f \in tree : Range(f[1]) \cap Ignored = {}}

\* The directories _packages finds, each with a manifest of its own.
Packages(tree) == {f[1][1] : f \in {g \in tree : Len(g[1]) = 2 /\ g[1][2] = Manifest}}

\* Reading the id of a package without one raises, and the upload is refused.
IndexError(tree) ==
  Check("invalid_fgui_project", \E f \in tree : Len(f[1]) = 2 /\ f[1][2] = Manifest /\ f[2] = "anonymous")

Fingerprint(tree) == SourcePaths(tree)

\* A preview depends on the image and on the encoder that made it.
Thumbnails(tree, encoder) == {<<f[1], f[2], encoder>> : f \in {g \in SourcePaths(tree) : g[2] \in Images}}

IndexUploadedProject(tree, encoder) ==
  [fingerprint |-> Fingerprint(tree), packages |-> Packages(tree), thumbnails |-> Thumbnails(tree, encoder)]
=============================================================================
