------------------------ MODULE ProjectStoreProofs -------------------------
(***************************************************************************)
(* Proofs about ProjectStore, and about the checks of an archive in        *)
(* ProjectUpload, for any archives, limits, uploads and servers.           *)
(***************************************************************************)
EXTENDS ProjectStore, FiniteSetTheorems, SequenceTheorems, WellFoundedInduction, TLAPS

Trees == {x.tree : x \in Extracted} \cup {{}}
Versions == {IndexUploadedProject(t, e) : t \in Trees, e \in Encoders}

Upload ==
  [phase : {"new", "indexed", "copying", "copied", "created", "rejected", "lost"},
   server : Servers \cup {None}, tree : Trees, version : Versions \cup {None},
   why : {"none", "archive_too_large", "unsafe_archive", "invalid_fgui_project",
          "integrity", "storage"},
   bytes : {x.bytes : x \in Extracted} \cup {0},
   manifests : {x.manifests : x \in Extracted} \cup {0}]

Artifact ==
  [files : SUBSET UNION Trees, thumbnails : SUBSET UNION {v.thumbnails : v \in Versions}]

TypesOK ==
  /\ up \in [Uploads -> Upload]
  /\ artifacts \in [DOMAIN artifacts -> Artifact]
  /\ versions \in [Uploads -> Versions \cup {None}]
  /\ encoder \in [Servers -> Encoders]
  /\ faults \in Nat /\ damage \in Nat

\* What is being stored was indexed from the tree that is being stored.
IndexedFromTree ==
  \A u \in Uploads : up[u].phase \in Working =>
    /\ up[u].version \in Versions
    /\ up[u].version.fingerprint = Fingerprint(up[u].tree)

\* What an upload found or put in place goes on verifying until it is damaged.
CheckedVerify ==
  \A u \in Uploads : up[u].phase \in {"copied", "created"} /\ u \notin hurt =>
    Verifies(up[u].version)

\* Metadata is what the accepted upload was indexed to.
MetadataOfAccepted ==
  \A u \in Uploads : versions[u] # None =>
    up[u].phase = "created" /\ versions[u] = up[u].version

\* While nothing failed every server makes the same previews, and every
\* artifact is what its fingerprint says, with all of these previews.
Undisturbed == faults = 0 /\ damage = 0

ServersAgree == Undisturbed => \A s, t \in Servers : encoder[s] = encoder[t]

ArtifactsAreWhole ==
  Undisturbed => \A f \in DOMAIN artifacts :
    /\ Fingerprint(artifacts[f].files) = f
    /\ \A s \in Servers : Thumbnails(artifacts[f].files, encoder[s]) = artifacts[f].thumbnails

IndexedByServer ==
  Undisturbed => \A u \in Uploads : up[u].phase \in Working =>
    \E s \in Servers : up[u].version = IndexUploadedProject(up[u].tree, encoder[s])

\* What was indexed came out of an archive without an error.
ComesFromArchive ==
  \A u \in Uploads : up[u].version # None =>
    \E x \in Extracted, e \in Encoders :
      /\ x.error = "none" /\ up[u].manifests = x.manifests
      /\ up[u].version = IndexUploadedProject(x.tree, e)

\* The inductive invariant.
IInv ==
  /\ TypesOK /\ IndexedFromTree /\ CheckedVerify /\ MetadataOfAccepted
  /\ ServersAgree /\ ArtifactsAreWhole /\ IndexedByServer
  /\ UndisturbedUploadsAreAccepted /\ ComesFromArchive
-----------------------------------------------------------------------------
(* Sums and errors.                                                        *)

\* A set of numbers has a least one: what the inductions below rest on.
LEMMA Least ==
  ASSUME NEW S, S \subseteq Nat, S # {}
  PROVE  \E m \in S : \A n \in S : m <= n
<1>1. PICK m \in S : \A n \in S : ~ (<<n, m>> \in OpToRel(<, Nat))
  BY NatLessThanWellFounded, WFMin
<1>2. \A n \in S : ~ (n < m)
  BY <1>1 DEF OpToRel
<1>3. QED
  BY <1>2

\* Min is that element.
LEMMA MinIsLeast ==
  ASSUME NEW S, S \subseteq Nat, S # {}
  PROVE  Min(S) \in S /\ \A n \in S : Min(S) <= n
BY Least DEF Min

\* Induction up to a bound, with the set of the numbers it has reached.
LEMMA UpTo ==
  ASSUME NEW len \in Nat, NEW S, 0 \in S, \A k \in 1..len : k - 1 \in S => k \in S
  PROVE  0..len \subseteq S
<1>1. SUFFICES ASSUME (0..len) \ S # {} PROVE FALSE
  OBVIOUS
<1>2. PICK m \in (0..len) \ S : \A n \in (0..len) \ S : m <= n
  <2>1. (0..len) \ S \subseteq Nat
    OBVIOUS
  <2>2. QED
    BY <1>1, <2>1, Least
<1>3. m \in 1..len /\ m - 1 \in 0..len /\ ~(m <= m - 1)
  BY <1>2
<1>4. m - 1 \in S
  BY <1>2, <1>3
<1>5. QED
  BY <1>2, <1>3, <1>4

\* A run of checks passes when each of them does, and fails with the first
\* that does not.
LEMMA FirstErrorFacts ==
  ASSUME NEW errors, DOMAIN errors \subseteq Nat
  PROVE  /\ FirstError(errors) = "none" <=> \A i \in DOMAIN errors : errors[i] = "none"
         /\ FirstError(errors) # "none" => \E i \in DOMAIN errors : FirstError(errors) = errors[i]
<1> DEFINE bad == {i \in DOMAIN errors : errors[i] # "none"}
<1>1. bad # {} => Min(bad) \in bad
  BY MinIsLeast
<1>2. FirstError(errors) = IF bad = {} THEN "none" ELSE errors[Min(bad)]
  BY DEF FirstError
<1>3. QED
  BY <1>1, <1>2

LEMMA TwoErrors ==
  ASSUME NEW a, NEW b
  PROVE  /\ FirstError(<<a, b>>) = "none" <=> a = "none" /\ b = "none"
         /\ FirstError(<<a, b>>) \in {"none", a, b}
<1>1. DOMAIN <<a, b>> = {1, 2} /\ <<a, b>>[1] = a /\ <<a, b>>[2] = b
  OBVIOUS
<1>2. QED
  BY <1>1, FirstErrorFacts

LEMMA ThreeErrors ==
  ASSUME NEW a, NEW b, NEW c
  PROVE  /\ FirstError(<<a, b, c>>) = "none" <=> a = "none" /\ b = "none" /\ c = "none"
         /\ FirstError(<<a, b, c>>) \in {"none", a, b, c}
<1>1. DOMAIN <<a, b, c>> = {1, 2, 3} /\ <<a, b, c>>[1] = a /\ <<a, b, c>>[2] = b /\ <<a, b, c>>[3] = c
  OBVIOUS
<1>2. QED
  BY <1>1, FirstErrorFacts

\* The recursion that adds up a sequence defines a function.
SumStep(seq, g, n) == IF n = 0 THEN 0 ELSE g[n - 1] + seq[n]
Defined(seq, k) == \E g \in [0..k -> Int] : \A n \in 0..k : g[n] = SumStep(seq, g, n)

LEMMA SumsFacts ==
  ASSUME NEW len \in Nat, NEW seq \in [1..len -> Int]
  PROVE  /\ Sums(seq) \in [0..len -> Int]
         /\ Sums(seq)[0] = 0
         /\ \A n \in 1..len : Sums(seq)[n] = Sums(seq)[n - 1] + seq[n]
<1>1. Len(seq) = len
  OBVIOUS
<1>2. Defined(seq, 0)
  <2>1. [n \in 0..0 |-> 0] \in [0..0 -> Int]
    OBVIOUS
  <2>2. \A n \in 0..0 : [m \in 0..0 |-> 0][n] = SumStep(seq, [m \in 0..0 |-> 0], n)
    BY DEF SumStep
  <2>3. QED
    BY <2>1, <2>2 DEF Defined
<1>3. ASSUME NEW k \in 1..len, Defined(seq, k - 1)
      PROVE  Defined(seq, k)
  <2>1. PICK g \in [0..(k - 1) -> Int] : \A n \in 0..(k - 1) : g[n] = SumStep(seq, g, n)
    BY <1>3 DEF Defined
  <2>2. PICK h : h = [n \in 0..k |-> IF n = k THEN g[k - 1] + seq[k] ELSE g[n]]
    OBVIOUS
  <2>3. /\ h \in [0..k -> Int] /\ h[k] = g[k - 1] + seq[k]
        /\ \A n \in 0..(k - 1) : h[n] = g[n]
    BY <2>2
  <2>4. \A n \in 0..(k - 1) : h[n] = SumStep(seq, h, n)
    <3>1. \A n \in 1..(k - 1) : n - 1 \in 0..(k - 1)
      OBVIOUS
    <3>2. QED
      BY <2>1, <2>3, <3>1 DEF SumStep
  <2>5. h[k] = SumStep(seq, h, k)
    BY <2>3 DEF SumStep
  <2>6. \A n \in 0..k : h[n] = SumStep(seq, h, n)
    BY <2>4, <2>5
  <2>7. QED
    BY <2>3, <2>6 DEF Defined
<1>4. Defined(seq, len)
  <2>1. PICK S : S = {k \in 0..len : Defined(seq, k)}
    OBVIOUS
  <2>2. 0 \in S
    BY <1>2, <2>1
  <2>3. \A k \in 1..len : k - 1 \in S => k \in S
    BY <1>3, <2>1
  <2>4. 0..len \subseteq S
    BY <2>2, <2>3, UpTo
  <2>5. QED
    BY <2>1, <2>4
<1>5. PICK g \in [0..len -> Int] : \A n \in 0..len : g[n] = SumStep(seq, g, n)
  BY <1>4 DEF Defined
<1>6. g = [n \in 0..len |-> SumStep(seq, g, n)]
  BY <1>5
<1>7. Sums(seq) = CHOOSE f : f = [n \in 0..len |-> SumStep(seq, f, n)]
  BY <1>1, Zenon DEF Sums, SumStep
<1>8. Sums(seq) = [n \in 0..len |-> SumStep(seq, Sums(seq), n)]
  BY <1>6, <1>7, Zenon
<1>9. PICK f : f = Sums(seq)
  OBVIOUS
<1>10. f = [n \in 0..len |-> SumStep(seq, f, n)]
  BY <1>8, <1>9
<1>11. f[0] = 0 /\ \A n \in 1..len : f[n] = f[n - 1] + seq[n]
  BY <1>10 DEF SumStep
<1>12. f \in [0..len -> Int]
  <2>1. PICK S : S = {n \in 0..len : f[n] \in Int}
    OBVIOUS
  <2>2. 0 \in S
    BY <1>11, <2>1
  <2>3. ASSUME NEW k \in 1..len, k - 1 \in S PROVE k \in S
    <3>1. f[k - 1] \in Int /\ seq[k] \in Int /\ f[k] = f[k - 1] + seq[k]
      BY <1>11, <2>1, <2>3
    <3>2. QED
      BY <2>1, <3>1
  <2>4. \A n \in 0..len : f[n] \in Int
    BY <2>1, <2>2, <2>3, UpTo
  <2>5. f = [n \in 0..len |-> f[n]]
    BY <1>10, Zenon
  <2>6. QED
    BY <2>4, <2>5
<1>13. QED
  BY <1>9, <1>11, <1>12

\* A sum is at most another whose terms are at least as large.
LEMMA SumsAreMonotonic ==
  ASSUME NEW len \in Nat, NEW a \in [1..len -> Int], NEW b \in [1..len -> Int],
         \A n \in 1..len : a[n] <= b[n]
  PROVE  \A n \in 0..len : Sums(a)[n] <= Sums(b)[n]
<1>1. PICK S : S = {n \in 0..len : Sums(a)[n] <= Sums(b)[n]}
  OBVIOUS
<1>2. PICK f, g : f = Sums(a) /\ g = Sums(b)
  OBVIOUS
<1>3. /\ f \in [0..len -> Int] /\ f[0] = 0 /\ \A n \in 1..len : f[n] = f[n - 1] + a[n]
      /\ g \in [0..len -> Int] /\ g[0] = 0 /\ \A n \in 1..len : g[n] = g[n - 1] + b[n]
  BY <1>2, SumsFacts
<1>4. 0 \in S
  BY <1>1, <1>2, <1>3
<1>5. \A k \in 1..len : k - 1 \in S => k \in S
  <2>1. ASSUME NEW k \in 1..len, k - 1 \in S PROVE k \in S
    <3>1. f[k - 1] <= g[k - 1] /\ k - 1 \in 0..len
      BY <1>1, <1>2, <2>1
    <3>2. f[k - 1] \in Int /\ g[k - 1] \in Int /\ a[k] \in Int /\ b[k] \in Int /\ a[k] <= b[k]
      BY <1>3, <2>1, <3>1
    <3>3. f[k] <= g[k]
      BY <1>3, <2>1, <3>1, <3>2
    <3>4. QED
      BY <1>1, <1>2, <2>1, <3>3
  <2>2. QED
    BY <2>1
<1>6. QED
  BY <1>1, <1>4, <1>5, UpTo
-----------------------------------------------------------------------------
(* What the checks of an archive guarantee.                                *)

LEMMA ArchiveFacts ==
  ASSUME NEW archive \in Seq(Entry)
  PROVE  /\ Len(archive) \in Nat /\ DOMAIN archive = 1..Len(archive)
         /\ \A i \in 1..Len(archive) : archive[i] \in Entry
BY LenProperties, ElementOfSeq

Refusals == {"archive_too_large", "unsafe_archive", "invalid_fgui_project"}

\* An archive is refused for one of three reasons.
LEMMA ErrorsAreRefusals ==
  ASSUME NEW archive \in Seq(Entry)
  PROVE  ExtractError(archive) \in Refusals \cup {"none"}
<1> DEFINE Names == Refusals \cup {"none"}
<1>1. \A error \in Names : \A raised : Check(error, raised) \in Names
  BY DEF Check
<1>2. \A a, b \in Names : FirstError(<<a, b>>) \in Names
  BY TwoErrors
<1>3. ASSUME NEW a \in Names, NEW b \in Names, NEW c \in Names
      PROVE  FirstError(<<a, b, c>>) \in Names
  <2>1. FirstError(<<a, b, c>>) \in {"none", a, b, c}
    BY ThreeErrors
  <2>2. QED
    BY <2>1
<1>4. \A raised : /\ Check("archive_too_large", raised) \in Names
                  /\ Check("unsafe_archive", raised) \in Names
                  /\ Check("invalid_fgui_project", raised) \in Names
  BY DEF Check, Refusals
<1>5. ValidateEntries(archive) \in Names
  <2>1. \A i \in DOMAIN archive : EntryError(archive, i) \in Names
    BY <1>2, <1>4, Zenon DEF EntryError
  <2>2. FirstError([i \in DOMAIN archive |-> EntryError(archive, i)]) \in Names
    <3>1. PICK errors : errors = [i \in DOMAIN archive |-> EntryError(archive, i)]
      OBVIOUS
    <3>2. DOMAIN errors \subseteq Nat /\ \A i \in DOMAIN errors : errors[i] \in Names
      BY <2>1, <3>1, ArchiveFacts
    <3>3. FirstError(errors) \in Names
      BY <3>2, FirstErrorFacts
    <3>4. QED
      BY <3>1, <3>3
  <2>3. QED
    BY <1>3, <1>4, <2>2, Zenon DEF ValidateEntries
<1>6. BeforeUnpacking(archive) \in Names
  BY <1>2, <1>4, <1>5, Zenon DEF BeforeUnpacking
<1>7. FirstError(CopyErrors(archive)) \in Names
  <2>1. \A i \in DOMAIN archive : CopyError(archive, i) \in Names
    BY <1>2, <1>4, Zenon DEF CopyError
  <2>2. DOMAIN CopyErrors(archive) \subseteq Nat
        /\ \A i \in DOMAIN CopyErrors(archive) : CopyErrors(archive)[i] \in Names
    BY <2>1, ArchiveFacts DEF CopyErrors
  <2>3. QED
    BY <2>2, FirstErrorFacts
<1>8. RootError(Files(archive)) \in Names
  BY <1>4, Zenon DEF RootError
<1>9. QED
  BY <1>2, <1>6, <1>7, <1>8, Zenon DEF ExtractError

\* While every file was copied, what was copied is within the limit.
LEMMA CopiedWithinLimit ==
  ASSUME NEW archive \in Seq(Entry), NEW m \in 0..Len(archive),
         \A i \in 1..m : CopyError(archive, i) = "none"
  PROVE  Sums(RealSizes(archive))[m] <= MaxTotal
<1>1. PICK len \in Nat : len = Len(archive) /\ DOMAIN archive = 1..len
  BY ArchiveFacts
<1>2. PICK real : real = RealSizes(archive)
  OBVIOUS
<1>3. \A i \in 1..len : archive[i].real \in Nat /\ real[i] = Counted(archive[i], archive[i].real)
  BY <1>1, <1>2, ArchiveFacts DEF RealSizes, Entry
<1>4. real \in [1..len -> Int]
  BY <1>1, <1>2, <1>3 DEF RealSizes, Counted
<1>5. PICK f : f = Sums(real)
  OBVIOUS
<1>6. f \in [0..len -> Int] /\ f[0] = 0 /\ \A n \in 1..len : f[n] = f[n - 1] + real[n]
  BY <1>4, <1>5, SumsFacts
<1>7. MaxTotal \in Nat /\ MaxFile \in Nat
  BY LimitsAssumption
<1>8. PICK S : S = {n \in 0..m : f[n] <= MaxTotal}
  OBVIOUS
<1>9. 0 \in S
  BY <1>1, <1>6, <1>7, <1>8
<1>10. ASSUME NEW k \in 1..m, k - 1 \in S PROVE k \in S
  <2>1. f[k - 1] <= MaxTotal /\ k \in 1..len /\ f[k] = f[k - 1] + real[k] /\ f[k - 1] \in Int
    <3>1. f[k - 1] <= MaxTotal
      BY <1>8, <1>10
    <3>2. k \in 1..len /\ k - 1 \in 0..len
      BY <1>1
    <3>3. QED
      BY <1>6, <3>1, <3>2
  <2>2. CASE archive[k].kind # "file"
    <3>1. real[k] = 0
      BY <1>3, <2>1, <2>2 DEF Counted
    <3>2. f[k] <= MaxTotal
      BY <2>1, <3>1
    <3>3. QED
      BY <1>8, <3>2
  <2>3. CASE archive[k].kind = "file"
    <3>1. Check("archive_too_large",
                /\ archive[k].kind = "file"
                /\ archive[k].real > MaxFile \/ SumUpTo(RealSizes(archive), k) > MaxTotal) = "none"
      <4>1. PICK blocked, large :
              /\ blocked = Check("unsafe_archive", archive[k].kind = "file" /\ Blocked(archive, k))
              /\ large = Check("archive_too_large",
                          /\ archive[k].kind = "file"
                          /\ archive[k].real > MaxFile \/ SumUpTo(RealSizes(archive), k) > MaxTotal)
        OBVIOUS
      <4>2. CopyError(archive, k) = FirstError(<<blocked, large>>)
        BY <4>1 DEF CopyError
      <4>3. large = "none"
        BY <4>2, TwoErrors
      <4>4. QED
        BY <4>1, <4>3
    <3>2. ~(SumUpTo(RealSizes(archive), k) > MaxTotal)
      BY <2>3, <3>1 DEF Check
    <3>3. ~(f[k] > MaxTotal) /\ f[k] \in Int
      BY <1>2, <1>5, <1>6, <2>1, <3>2 DEF SumUpTo
    <3>4. QED
      BY <1>7, <1>8, <3>3
  <2>4. QED
    BY <2>2, <2>3
<1>11. m \in S
  <2>1. m \in Nat
    BY <1>1
  <2>2. 0..m \subseteq S
    BY <1>9, <1>10, <2>1, UpTo
  <2>3. QED
    BY <2>1, <2>2
<1>12. QED
  BY <1>2, <1>5, <1>8, <1>11

\* At most one more file was written when the limit is noticed.
LEMMA DiskUse ==
  ASSUME NEW archive \in Seq(Entry)
  PROVE  BytesWritten(archive) <= MaxTotal + MaxFile
<1>1. PICK len \in Nat : len = Len(archive) /\ DOMAIN archive = 1..len
  BY ArchiveFacts
<1>2. MaxTotal \in Nat /\ MaxFile \in Nat
  BY LimitsAssumption
<1>3. PICK copied, real :
        copied = [i \in DOMAIN archive |-> Copied(archive, i)] /\ real = RealSizes(archive)
  OBVIOUS
<1>4. ASSUME NEW i \in 1..len
      PROVE  /\ copied[i] \in Int /\ real[i] \in Int
             /\ copied[i] <= real[i] /\ copied[i] <= MaxFile
  <2>1. archive[i].real \in Nat
    BY <1>1, ArchiveFacts DEF Entry
  <2>2. PICK least : least = Min({archive[i].real, MaxFile})
    OBVIOUS
  <2>3. least \in Nat /\ least <= archive[i].real /\ least <= MaxFile
    <3>1. {archive[i].real, MaxFile} \subseteq Nat /\ {archive[i].real, MaxFile} # {}
      BY <1>2, <2>1
    <3>2. least \in {archive[i].real, MaxFile} /\ \A n \in {archive[i].real, MaxFile} : least <= n
      BY <2>2, <3>1, MinIsLeast
    <3>3. QED
      BY <3>1, <3>2
  <2>4. copied[i] = IF Blocked(archive, i) THEN 0 ELSE Counted(archive[i], least)
    BY <1>1, <1>3, <2>2 DEF Copied
  <2>5. real[i] = Counted(archive[i], archive[i].real)
    BY <1>1, <1>3 DEF RealSizes
  <2>6. QED
    BY <1>2, <2>1, <2>3, <2>4, <2>5 DEF Counted
<1>5. copied \in [1..len -> Int] /\ real \in [1..len -> Int]
  BY <1>1, <1>3, <1>4 DEF RealSizes
<1>6. PICK f, g : f = Sums(copied) /\ g = Sums(real)
  OBVIOUS
<1>7. /\ f \in [0..len -> Int] /\ \A n \in 1..len : f[n] = f[n - 1] + copied[n]
      /\ g \in [0..len -> Int] /\ \A n \in 0..len : f[n] <= g[n]
  BY <1>4, <1>5, <1>6, SumsFacts, SumsAreMonotonic
<1>8. PICK failed : failed = {i \in DOMAIN archive : CopyErrors(archive)[i] # "none"}
  OBVIOUS
<1>9. \A i \in 1..len : i \notin failed => CopyError(archive, i) = "none"
  BY <1>1, <1>8 DEF CopyErrors
<1>10. CASE failed = {}
  <2>1. \A i \in 1..len : CopyError(archive, i) = "none"
    BY <1>9, <1>10
  <2>2. g[len] <= MaxTotal
    BY <1>1, <1>3, <1>6, <2>1, CopiedWithinLimit
  <2>3. f[len] <= MaxTotal + MaxFile
    BY <1>2, <1>7, <2>2
  <2>4. QED
    BY <1>1, <1>2, <1>3, <1>6, <1>8, <1>10, <2>3 DEF BytesWritten, SumUpTo
<1>11. CASE failed # {}
  <2>1. PICK m : m = Min(failed)
    OBVIOUS
  <2>2. m \in failed /\ \A n \in failed : m <= n
    <3>1. failed \subseteq Nat
      BY <1>1, <1>8
    <3>2. QED
      BY <1>11, <2>1, <3>1, MinIsLeast
  <2>3. m \in 1..len /\ m - 1 \in 0..len
    BY <1>1, <1>8, <2>2
  <2>4. \A i \in 1..(m - 1) : CopyError(archive, i) = "none"
    <3>1. \A i \in 1..(m - 1) : i \in 1..len /\ ~(m <= i)
      BY <2>3
    <3>2. QED
      BY <1>9, <2>2, <3>1
  <2>5. g[m - 1] <= MaxTotal
    BY <1>1, <1>3, <1>6, <2>3, <2>4, CopiedWithinLimit
  <2>6. f[m] <= MaxTotal + MaxFile
    <3>1. f[m] = f[m - 1] + copied[m] /\ f[m - 1] <= g[m - 1] /\ copied[m] <= MaxFile
      BY <1>4, <1>7, <2>3
    <3>2. f[m - 1] \in Int /\ g[m - 1] \in Int /\ copied[m] \in Int
      BY <1>4, <1>7, <2>3
    <3>3. QED
      BY <1>2, <2>5, <3>1, <3>2
  <2>7. QED
    BY <1>2, <1>3, <1>6, <1>8, <1>11, <2>1, <2>6 DEF BytesWritten, SumUpTo
<1>12. QED
  BY <1>10, <1>11

\* An archive that passes names no path twice.
LEMMA PathsAreDistinct ==
  ASSUME NEW archive \in Seq(Entry), ExtractError(archive) = "none"
  PROVE  \A i, j \in DOMAIN archive : archive[i].path = archive[j].path => i = j
<1>1. PICK len \in Nat : len = Len(archive) /\ DOMAIN archive = 1..len
  BY ArchiveFacts
<1>2. ValidateEntries(archive) = "none"
  <2>1. FirstError(<<BeforeUnpacking(archive), FirstError(CopyErrors(archive))>>) = "none"
    BY Zenon DEF ExtractError
  <2>2. BeforeUnpacking(archive) = "none"
    BY <2>1, TwoErrors
  <2>3. QED
    BY <2>2, TwoErrors DEF BeforeUnpacking
<1>3. FirstError([i \in DOMAIN archive |-> EntryError(archive, i)]) = "none"
  BY <1>2, ThreeErrors DEF ValidateEntries
<1>4. \A i \in 1..len : EntryError(archive, i) = "none"
  <2>1. PICK errors : errors = [i \in DOMAIN archive |-> EntryError(archive, i)]
    OBVIOUS
  <2>2. DOMAIN errors = 1..len /\ FirstError(errors) = "none"
    BY <1>1, <1>3, <2>1
  <2>3. \A i \in DOMAIN errors : errors[i] = "none"
    BY <2>2, FirstErrorFacts
  <2>4. QED
    BY <1>1, <2>1, <2>3
<1>5. ASSUME NEW i \in 1..len
      PROVE  ~ \E j \in 1..(i - 1) : archive[j].path = archive[i].path
  <2>1. Check("unsafe_archive", \/ archive[i].path = <<>>
                                \/ \E j \in 1..(i - 1) : archive[j].path = archive[i].path
                                \/ archive[i].kind \in {"link", "locked"}) = "none"
    BY <1>4, TwoErrors DEF EntryError
  <2>2. QED
    BY <2>1 DEF Check
<1>6. ASSUME NEW i \in 1..len, NEW j \in 1..len, archive[i].path = archive[j].path, i < j
      PROVE  FALSE
  <2>1. i \in 1..(j - 1)
    BY <1>6
  <2>2. QED
    BY <1>5, <1>6, <2>1
<1>7. QED
  BY <1>1, <1>6

\* The files of an archive, and what each of their names begins with, are finitely many.
LEMMA FilesAreFinite ==
  ASSUME NEW archive \in Seq(Entry)
  PROVE  /\ Files(archive) \subseteq Entry
         /\ IsFiniteSet(Files(archive))
         /\ IsFiniteSet({f.path[1] : f \in Files(archive)})
<1>1. PICK len \in Nat : len = Len(archive) /\ DOMAIN archive = 1..len
  BY ArchiveFacts
<1>2. PICK I : I = {i \in 1..len : archive[i].kind = "file"}
  OBVIOUS
<1>3. IsFiniteSet(I)
  <2>1. IsFiniteSet(1..len)
    BY FS_Interval
  <2>2. I \in SUBSET (1..len)
    BY <1>2
  <2>3. QED
    BY <2>1, <2>2, FS_Subset
<1>4. Files(archive) = {archive[i] : i \in I}
  BY <1>1, <1>2 DEF Files, Range
<1>5. IsFiniteSet(Files(archive))
  <2>1. [i \in I |-> archive[i]] \in Surjection(I, Files(archive))
    BY <1>4 DEF Surjection
  <2>2. QED
    BY <1>3, <2>1, FS_Surjection
<1>6. IsFiniteSet({f.path[1] : f \in Files(archive)})
  <2>1. [f \in Files(archive) |-> f.path[1]]
          \in Surjection(Files(archive), {f.path[1] : f \in Files(archive)})
    BY DEF Surjection
  <2>2. QED
    BY <1>5, <2>1, FS_Surjection
<1>7. QED
  BY <1>1, <1>2, <1>4, <1>5, <1>6, ArchiveFacts

\* The packages lie in one directory: d folders down, and all in the same
\* folder if d is 1.
LEMMA OneRoot ==
  ASSUME NEW archive \in Seq(Entry), ExtractError(archive) = "none"
  PROVE  /\ Manifests(Files(archive)) # {}
         /\ \E d \in {0, 1} :
              /\ Max(Depths(Files(archive))) = d
              /\ \A m \in Manifests(Files(archive)) : Len(m.path) = d + 2
              /\ d = 1 => \A f, g \in Files(archive) : f.path[1] = g.path[1]
<1>1. PICK files : files = Files(archive)
  OBVIOUS
<1>2. RootError(files) = "none"
  BY <1>1, Zenon DEF ExtractError
<1>3. /\ Manifests(files) # {}
      /\ Depths(files) \subseteq {0, 1} /\ Cardinality(Depths(files)) = 1
      /\ ~(Max(Depths(files)) = 1 /\ Cardinality({f.path[1] : f \in files}) > 1)
  BY <1>2 DEF RootError, Check
<1>4. PICK d \in {0, 1} : Depths(files) = {d}
  <2>1. IsFiniteSet(Depths(files))
    BY <1>3, FS_Interval, FS_Subset
  <2>2. PICK d : Depths(files) = {d}
    BY <1>3, <2>1, FS_Singleton
  <2>3. QED
    BY <1>3, <2>2
<1>5. Max({d}) = d
  BY DEF Max
<1>6. \A m \in Manifests(files) : Len(m.path) = d + 2
  <2>1. \A m \in Manifests(files) : Len(m.path) - 2 = d
    BY <1>4 DEF Depths
  <2>2. \A m \in Manifests(files) : Len(m.path) \in Nat
    BY <1>1, FilesAreFinite, LenProperties DEF Manifests, Entry
  <2>3. QED
    BY <2>1, <2>2
<1>7. ASSUME d = 1, NEW f \in files, NEW g \in files, f.path[1] # g.path[1]
      PROVE  FALSE
  <2>1. PICK T : T = {h.path[1] : h \in files}
    OBVIOUS
  <2>2. IsFiniteSet(T)
    BY <1>1, <2>1, FilesAreFinite
  <2>3. Cardinality({f.path[1], g.path[1]}) = 2
    <3>1. PICK a, b : a = f.path[1] /\ b = g.path[1]
      OBVIOUS
    <3>2. IsFiniteSet({a}) /\ Cardinality({a}) = 1 /\ b \notin {a}
      BY <1>7, <3>1, FS_Singleton
    <3>3. Cardinality({a} \cup {b}) = IF b \in {a} THEN Cardinality({a}) ELSE Cardinality({a}) + 1
      BY <3>2, FS_AddElement
    <3>4. {a, b} = {a} \cup {b}
      OBVIOUS
    <3>5. QED
      BY <3>1, <3>2, <3>3, <3>4
  <2>4. Cardinality({f.path[1], g.path[1]}) <= Cardinality(T) /\ Cardinality(T) \in Nat
    <3>1. {f.path[1], g.path[1]} \in SUBSET T
      BY <1>7, <2>1
    <3>2. QED
      BY <2>2, <3>1, FS_Subset, FS_CardinalityType
  <2>5. ~(Cardinality(T) > 1)
    BY <1>3, <1>4, <1>5, <1>7, <2>1
  <2>6. QED
    BY <2>3, <2>4, <2>5
<1>8. QED
  BY <1>1, <1>3, <1>4, <1>5, <1>6, <1>7

\* So indexing finds a package for every manifest, and finds it once.
LEMMA PackagesAreManifests ==
  ASSUME NEW archive \in Seq(Entry), ExtractError(archive) = "none"
  PROVE  /\ Cardinality(Manifests(Files(archive))) > 0
         /\ Cardinality(Packages(Tree(archive))) = Cardinality(Manifests(Files(archive)))
<1>1. PICK files, M : files = Files(archive) /\ M = Manifests(files)
  OBVIOUS
<1>2. PICK d \in {0, 1} :
        /\ Max(Depths(files)) = d
        /\ \A m \in M : Len(m.path) = d + 2
        /\ d = 1 => \A f, g \in files : f.path[1] = g.path[1]
  BY <1>1, OneRoot
<1>3. M # {} /\ M \subseteq files /\ \A f \in files : f.path \in Seq(STRING)
  BY <1>1, OneRoot, FilesAreFinite DEF Manifests, Entry
<1>4. IsFiniteSet(M) /\ Cardinality(M) \in Nat /\ Cardinality(M) # 0
  <2>1. IsFiniteSet(files)
    BY <1>1, FilesAreFinite
  <2>2. QED
    BY <1>3, <2>1, FS_Subset, FS_CardinalityType, FS_EmptySet
<1>5. \A f, g \in files : f.path = g.path => f = g
  BY <1>1, PathsAreDistinct DEF Files, Range
<1>6. PICK under : under = [f \in files |-> SubSeq(f.path, 1 + d, Len(f.path))]
  OBVIOUS
<1>7. ASSUME NEW f \in files
      PROVE  /\ Len(under[f]) = 2 <=> Len(f.path) = d + 2
             /\ Len(under[f]) = 2 => under[f][1] = f.path[d + 1] /\ under[f][2] = f.path[d + 2]
  <2>1. PICK len \in Nat : len = Len(f.path)
    BY <1>3, LenProperties
  <2>2. \A i \in (1 + d)..len : f.path[i] \in STRING
    <3>1. \A i \in 1..len : f.path[i] \in STRING
      BY <1>3, <2>1, ElementOfSeq
    <3>2. QED
      BY <3>1
  <2>3. /\ Len(under[f]) = IF 1 + d <= len THEN len - (1 + d) + 1 ELSE 0
        /\ \A i \in 1..(len - (1 + d) + 1) : under[f][i] = f.path[(1 + d) + i - 1]
    BY <1>6, <2>1, <2>2, SubSeqProperties
  <2>4. Len(under[f]) = 2 <=> len = d + 2
    BY <2>3
  <2>5. ASSUME len = d + 2
        PROVE  under[f][1] = f.path[d + 1] /\ under[f][2] = f.path[d + 2]
    <3>1. /\ 1 \in 1..(len - (1 + d) + 1) /\ (1 + d) + 1 - 1 = d + 1
          /\ 2 \in 1..(len - (1 + d) + 1) /\ (1 + d) + 2 - 1 = d + 2
      BY <2>5
    <3>2. under[f][1] = f.path[(1 + d) + 1 - 1] /\ under[f][2] = f.path[(1 + d) + 2 - 1]
      BY <2>3, <3>1
    <3>3. QED
      BY <3>1, <3>2
  <2>6. QED
    BY <2>1, <2>4, <2>5
<1>8. Tree(archive) = {<<under[f], f.content>> : f \in files}
  BY <1>1, <1>2, <1>6 DEF Tree
<1>9. PICK P : P = Packages(Tree(archive))
  OBVIOUS
<1>10. P = {m.path[d + 1] : m \in M}
  <2>1. \A p : p \in P <=> \E f \in files : /\ Len(under[f]) = 2 /\ under[f][2] = Manifest
                                            /\ p = under[f][1]
    <3>1. P = {t[1][1] : t \in {u \in Tree(archive) : Len(u[1]) = 2 /\ u[1][2] = Manifest}}
      BY <1>9 DEF Packages
    <3>2. \A t : t \in Tree(archive) <=> \E f \in files : t = <<under[f], f.content>>
      BY <1>8
    <3>3. \A p : p \in P <=>
                 \E t \in Tree(archive) : Len(t[1]) = 2 /\ t[1][2] = Manifest /\ p = t[1][1]
      BY <3>1
    <3>4. \A f \in files : <<under[f], f.content>>[1] = under[f]
      OBVIOUS
    <3>5. ASSUME NEW p \in P
          PROVE  \E f \in files : Len(under[f]) = 2 /\ under[f][2] = Manifest /\ p = under[f][1]
      <4>1. PICK t \in Tree(archive) : Len(t[1]) = 2 /\ t[1][2] = Manifest /\ p = t[1][1]
        BY <3>3
      <4>2. PICK f \in files : t = <<under[f], f.content>>
        BY <3>2
      <4>3. t[1] = under[f]
        BY <3>4, <4>2
      <4>4. QED
        BY <4>1, <4>3
    <3>6. ASSUME NEW p, NEW f \in files,
                 Len(under[f]) = 2, under[f][2] = Manifest, p = under[f][1]
          PROVE  p \in P
      <4>1. PICK t : t = <<under[f], f.content>>
        OBVIOUS
      <4>2. t \in Tree(archive) /\ t[1] = under[f]
        BY <3>2, <3>4, <4>1
      <4>3. QED
        BY <3>3, <3>6, <4>2
    <3>7. QED
      BY <3>5, <3>6
  <2>2. \A f \in files : f \in M <=> Len(under[f]) = 2 /\ under[f][2] = Manifest
    <3>1. ASSUME NEW f \in files PROVE f \in M <=> Len(under[f]) = 2 /\ under[f][2] = Manifest
      <4>1. f \in M => Len(f.path) = d + 2 /\ f.path[Len(f.path)] = Manifest
        BY <1>1, <1>2 DEF Manifests, Last
      <4>2. Len(f.path) = d + 2 /\ f.path[d + 2] = Manifest => f \in M
        BY <1>1, <3>1 DEF Manifests, Last
      <4>3. QED
        BY <1>7, <4>1, <4>2
    <3>2. QED
      BY <3>1
  <2>3. \A m \in M : m \in files /\ under[m][1] = m.path[d + 1]
    BY <1>3, <1>7, <2>2
  <2>4. QED
    BY <2>1, <2>2, <2>3
<1>11. ASSUME NEW m \in M, NEW n \in M, m.path[d + 1] = n.path[d + 1]
       PROVE  m = n
  <2>1. /\ m \in files /\ n \in files
        /\ Len(m.path) = d + 2 /\ Len(n.path) = d + 2
        /\ m.path \in Seq(STRING) /\ n.path \in Seq(STRING)
    BY <1>2, <1>3
  <2>2. m.path[d + 2] = n.path[d + 2]
    BY <1>1, <2>1 DEF Manifests, Last
  <2>3. d = 1 => m.path[1] = n.path[1]
    BY <1>2, <2>1
  <2>4. \A i \in 1..(d + 2) : m.path[i] = n.path[i]
    BY <1>11, <2>2, <2>3
  <2>5. m.path = n.path
    BY <2>1, <2>4, SeqEqual
  <2>6. QED
    BY <1>5, <2>1, <2>5
<1>12. [m \in M |-> m.path[d + 1]] \in Bijection(M, P)
  <2>1. PICK b : b = [m \in M |-> m.path[d + 1]]
    OBVIOUS
  <2>2. b \in [M -> P] /\ \A m \in M : b[m] = m.path[d + 1]
    BY <1>10, <2>1
  <2>3. b \in Injection(M, P)
    BY <1>11, <2>2 DEF Injection, IsInjective
  <2>4. b \in Surjection(M, P)
    BY <1>10, <2>2 DEF Surjection
  <2>5. QED
    BY <2>1, <2>3, <2>4 DEF Bijection
<1>13. Cardinality(P) = Cardinality(M)
  BY <1>4, <1>12, FS_Bijection DEF ExistsBijection
<1>14. QED
  BY <1>1, <1>4, <1>9, <1>13
-----------------------------------------------------------------------------
(* Lemmas about uploads and artifacts.                                     *)

LEMMA ExtractedFacts ==
  ASSUME NEW x \in Extracted
  PROVE  /\ x.error \in Refusals \cup {"none"}
         /\ x.bytes <= MaxTotal + MaxFile
         /\ x.error = "none" => x.manifests > 0 /\ Cardinality(Packages(x.tree)) = x.manifests
<1>1. PICK archive \in Seq(Entry) : x = Extract(archive)
  BY ArchivesAssumption DEF Extracted
<1>2. /\ x.error = ExtractError(archive)
      /\ x.tree = IF ExtractError(archive) = "none" THEN Tree(archive) ELSE {}
      /\ x.bytes = BytesWritten(archive)
      /\ x.manifests = Cardinality(Manifests(Files(archive)))
  BY <1>1 DEF Extract
<1>3. QED
  BY <1>2, ErrorsAreRefusals, DiskUse, PackagesAreManifests

\* Previews are made of the sources, so equal fingerprints have equal previews.
LEMMA PreviewsOfSources ==
  ASSUME NEW t, NEW v, NEW e, Fingerprint(t) = Fingerprint(v)
  PROVE  Thumbnails(t, e) = Thumbnails(v, e)
BY DEF Fingerprint, Thumbnails

LEMMA IndexFacts ==
  ASSUME NEW t, NEW e
  PROVE  /\ IndexUploadedProject(t, e).fingerprint = Fingerprint(t)
         /\ IndexUploadedProject(t, e).thumbnails = Thumbnails(t, e)
         /\ IndexUploadedProject(t, e).packages = Packages(t)
         /\ IndexError(t) \in {"none", "invalid_fgui_project"}
BY DEF IndexUploadedProject, IndexError, Check

\* An upload that has come to an end names nothing any more.
LEMMA RefusedFacts ==
  ASSUME NEW r \in Upload, NEW why \in Refusals \cup {"none", "integrity", "storage"}
  PROVE  /\ Refused(r, why) \in Upload
         /\ Refused(r, why).phase = "rejected" /\ Refused(r, why).version = None
         /\ Refused(r, why).why = why
<1>1. {} \in Trees
  BY DEF Trees
<1>2. {"phase", "why", "tree", "version"} \subseteq DOMAIN r
  BY DEF Upload
<1>3. Refused(r, why) \in Upload
  BY <1>1 DEF Upload, Refused, Refusals
<1>4. QED
  BY <1>2, <1>3 DEF Refused

\* What must hold of an upload's record when it changes.
Sound(r) ==
  /\ r.phase \in Working => r.version \in Versions /\ r.version.fingerprint = Fingerprint(r.tree)
  /\ r.phase \in {"copied", "created"} => Verifies(r.version)
  /\ Undisturbed /\ r.phase \in Working =>
       \E s \in Servers : r.version = IndexUploadedProject(r.tree, encoder[s])
  /\ r.version # None =>
       \E x \in Extracted, e \in Encoders :
         x.error = "none" /\ r.manifests = x.manifests /\ r.version = IndexUploadedProject(x.tree, e)

\* A step that changes one upload, and at most counts an error.
LEMMA OneUpload ==
  ASSUME IInv, NEW u \in Uploads, NEW r \in Upload,
         up' = [up EXCEPT ![u] = r], up[u].phase # "created", Sound(r),
         faults' \in {faults, faults + 1},
         faults' = faults /\ Undisturbed => r.why \notin {"integrity", "storage"},
         UNCHANGED <<artifacts, versions, encoder, damage, hurt>>
  PROVE  IInv'
<1>1. /\ up \in [Uploads -> Upload] /\ up' \in [Uploads -> Upload]
      /\ \A v \in Uploads : up'[v] = IF v = u THEN r ELSE up[v]
      /\ faults \in Nat /\ faults' \in Nat
  BY DEF IInv, TypesOK
<1>2. TypesOK'
  BY <1>1 DEF IInv, TypesOK
<1>3. Undisturbed' => Undisturbed /\ faults' = faults
  BY <1>1 DEF Undisturbed
<1>4. IndexedFromTree'
  BY <1>1 DEF IInv, IndexedFromTree, Sound
<1>5. CheckedVerify'
  BY <1>1 DEF IInv, CheckedVerify, Sound, Verifies
<1>6. MetadataOfAccepted'
  BY <1>1 DEF IInv, MetadataOfAccepted
<1>7. ServersAgree' /\ ArtifactsAreWhole'
  BY <1>3 DEF IInv, ServersAgree, ArtifactsAreWhole
<1>8. IndexedByServer'
  BY <1>1, <1>3 DEF IInv, IndexedByServer, Sound
<1>9. UndisturbedUploadsAreAccepted'
  BY <1>1, <1>3 DEF IInv, UndisturbedUploadsAreAccepted, Undisturbed
<1>10. ComesFromArchive'
  BY <1>1 DEF IInv, ComesFromArchive, Sound
<1>11. QED
  BY <1>2, <1>4, <1>5, <1>6, <1>7, <1>8, <1>9, <1>10 DEF IInv
-----------------------------------------------------------------------------
(* The steps.                                                              *)

LEMMA NewIsUpload == New \in Upload
BY DEF New, Upload, Trees

LEMMA InitInvariant == Init => IInv
<1> SUFFICES ASSUME Init PROVE IInv
  OBVIOUS
<1>1. \A u \in Uploads : up[u] = New /\ up[u].phase = "new" /\ up[u].version = None /\ up[u].why = "none"
  BY DEF Init, New
<1>2. TypesOK
  BY NewIsUpload DEF Init, TypesOK
<1>3. IndexedFromTree /\ CheckedVerify /\ IndexedByServer
  BY <1>1 DEF IndexedFromTree, CheckedVerify, IndexedByServer, Working
<1>4. MetadataOfAccepted /\ ComesFromArchive /\ UndisturbedUploadsAreAccepted
  BY <1>1 DEF Init, MetadataOfAccepted, ComesFromArchive, UndisturbedUploadsAreAccepted
<1>5. ServersAgree /\ ArtifactsAreWhole
  BY DEF Init, ServersAgree, ArtifactsAreWhole
<1>6. QED
  BY <1>2, <1>3, <1>4, <1>5 DEF IInv

\* An archive without an error is indexed by its server.
LEMMA ReceiveInvariant ==
  ASSUME IInv, NEW u \in Uploads, NEW s \in Servers, NEW x \in Extracted, Receive(u, s, x)
  PROVE  IInv'
<1>1. PICK record :
        record = [New EXCEPT !.server = s, !.bytes = x.bytes, !.manifests = x.manifests]
  OBVIOUS
<1>2. /\ record \in Upload /\ record.manifests = x.manifests /\ record.why = "none"
  BY <1>1, NewIsUpload DEF New, Upload
<1>3. PICK error : error = IF x.error # "none" THEN x.error ELSE IndexError(x.tree)
  OBVIOUS
<1>4. error \in Refusals \cup {"none"}
  BY <1>3, ExtractedFacts, IndexFacts DEF Refusals
<1>5. PICK r : /\ up' = [up EXCEPT ![u] = r]
               /\ r = IF error # "none" THEN Refused(record, error)
                      ELSE [record EXCEPT !.phase = "indexed", !.tree = x.tree,
                                          !.version = IndexUploadedProject(x.tree, encoder[s])]
  BY <1>1, <1>3, Zenon DEF Receive
<1>6. encoder[s] \in Encoders
  BY DEF IInv, TypesOK
<1>7. r \in Upload /\ Sound(r) /\ r.why \notin {"integrity", "storage"}
  <2>1. CASE error # "none"
    <3>1. /\ r \in Upload /\ r.phase = "rejected" /\ r.version = None /\ r.why = error
      BY <1>2, <1>4, <1>5, <2>1, RefusedFacts
    <3>2. QED
      BY <1>4, <3>1 DEF Sound, Working, Refusals
  <2>2. CASE error = "none"
    <3>1. PICK version : version = IndexUploadedProject(x.tree, encoder[s])
      OBVIOUS
    <3>2. x.tree \in Trees /\ version \in Versions
      BY <1>6, <3>1 DEF Trees, Versions
    <3>3. r = [record EXCEPT !.phase = "indexed", !.tree = x.tree, !.version = version]
      BY <1>5, <2>2, <3>1
    <3>4. r \in Upload
      BY <1>2, <3>2, <3>3 DEF Upload
    <3>5. {"phase", "tree", "version", "manifests", "why"} \subseteq DOMAIN record
      BY <1>2 DEF Upload
    <3>6. /\ r.phase = "indexed" /\ r.tree = x.tree /\ r.version = version
          /\ r.manifests = x.manifests /\ r.why = "none"
      BY <1>2, <3>3, <3>5
    <3>7. version.fingerprint = Fingerprint(x.tree)
      BY <3>1, IndexFacts
    <3>8. x.error = "none"
      BY <1>3, <2>2
    <3>9. Sound(r)
      BY <1>6, <3>1, <3>2, <3>6, <3>7, <3>8 DEF Sound
    <3>10. QED
      BY <3>4, <3>6, <3>9
  <2>3. QED
    BY <2>1, <2>2
<1>8. QED
  BY <1>5, <1>7, OneUpload DEF Receive

\* While nothing failed, an artifact that is there is what an upload needs.
LEMMA ExistingServes ==
  ASSUME IInv, Undisturbed, NEW u \in Uploads, up[u].phase \in Working,
         up[u].version.fingerprint \in DOMAIN artifacts
  PROVE  Verifies(up[u].version)
<1>1. PICK f, tree : f = up[u].version.fingerprint /\ tree = artifacts[f].files
  OBVIOUS
<1>2. PICK s \in Servers : up[u].version = IndexUploadedProject(up[u].tree, encoder[s])
  BY DEF IInv, IndexedByServer
<1>3. f = Fingerprint(up[u].tree) /\ up[u].version.thumbnails = Thumbnails(up[u].tree, encoder[s])
  BY <1>1, <1>2, IndexFacts
<1>4. Fingerprint(tree) = f /\ Thumbnails(tree, encoder[s]) = artifacts[f].thumbnails
  BY <1>1 DEF IInv, ArtifactsAreWhole
<1>5. Thumbnails(tree, encoder[s]) = Thumbnails(up[u].tree, encoder[s])
  BY <1>3, <1>4, PreviewsOfSources
<1>6. QED
  BY <1>1, <1>3, <1>4, <1>5 DEF Verifies

\* An upload goes on to another phase, and is sound if it was.
LEMMA Moves ==
  ASSUME IInv, NEW u \in Uploads, up[u].phase \in Working,
         NEW phase \in {"copying", "copied", "created"},
         phase \in {"copied", "created"} => Verifies(up[u].version)
  PROVE  /\ [up[u] EXCEPT !.phase = phase] \in Upload
         /\ Sound([up[u] EXCEPT !.phase = phase])
         /\ [up[u] EXCEPT !.phase = phase].why = up[u].why
         /\ [up[u] EXCEPT !.phase = phase].version = up[u].version
<1>1. PICK q, r : q = up[u] /\ r = [q EXCEPT !.phase = phase]
  OBVIOUS
<1>2. q \in Upload
  BY <1>1 DEF IInv, TypesOK
<1>3. r \in Upload
  BY <1>1, <1>2 DEF Upload
<1>4. {"phase", "tree", "version", "manifests", "why"} \subseteq DOMAIN q
  BY <1>2 DEF Upload
<1>5. /\ r.phase = phase /\ r.tree = q.tree /\ r.version = q.version
      /\ r.manifests = q.manifests /\ r.why = q.why
  BY <1>1, <1>4
<1>6. Sound(r)
  <2>1. r.version \in Versions /\ r.version.fingerprint = Fingerprint(r.tree)
    BY <1>1, <1>5 DEF IInv, IndexedFromTree
  <2>2. Undisturbed => \E s \in Servers : r.version = IndexUploadedProject(r.tree, encoder[s])
    BY <1>1, <1>5 DEF IInv, IndexedByServer
  <2>3. r.version # None =>
          \E x \in Extracted, e \in Encoders :
            x.error = "none" /\ r.manifests = x.manifests /\ r.version = IndexUploadedProject(x.tree, e)
    BY <1>1, <1>5 DEF IInv, ComesFromArchive
  <2>4. QED
    BY <1>1, <1>5, <2>1, <2>2, <2>3 DEF Sound
<1>7. QED
  BY <1>1, <1>3, <1>5, <1>6

\* An upload that is refused is sound.
LEMMA RefusedIsSound ==
  ASSUME IInv, NEW u \in Uploads, NEW why \in {"none", "integrity", "storage"}
  PROVE  Refused(up[u], why) \in Upload /\ Sound(Refused(up[u], why))
         /\ Refused(up[u], why).why = why
<1>1. up[u] \in Upload
  BY DEF IInv, TypesOK
<1>2. QED
  BY <1>1, RefusedFacts DEF Sound, Working

LEMMA UseExistingInvariant ==
  ASSUME IInv, NEW u \in Uploads, up[u].phase \in Working,
         up[u].version.fingerprint \in DOMAIN artifacts, UseExisting(u),
         UNCHANGED <<artifacts, versions, encoder, faults, damage, hurt>>
  PROVE  IInv'
<1>1. up[u].phase # "created" /\ (Undisturbed => up[u].why \notin {"integrity", "storage"})
  BY DEF Working, IInv, UndisturbedUploadsAreAccepted, Undisturbed
<1>2. CASE Verifies(up[u].version)
  <2>1. PICK r : r = [up[u] EXCEPT !.phase = "copied"]
    OBVIOUS
  <2>2. up' = [up EXCEPT ![u] = r]
    BY <1>2, <2>1 DEF UseExisting
  <2>3. r \in Upload /\ Sound(r) /\ r.why = up[u].why
    BY <1>2, <2>1, Moves
  <2>4. QED
    BY <1>1, <2>2, <2>3, OneUpload
<1>3. CASE ~Verifies(up[u].version)
  <2>1. PICK r : r = Refused(up[u], "integrity")
    OBVIOUS
  <2>2. up' = [up EXCEPT ![u] = r]
    BY <1>3, <2>1 DEF UseExisting
  <2>3. r \in Upload /\ Sound(r)
    BY <2>1, RefusedIsSound
  <2>4. ~Undisturbed
    BY <1>3, ExistingServes
  <2>5. QED
    BY <1>1, <2>2, <2>3, <2>4, OneUpload
<1>4. QED
  BY <1>2, <1>3

LEMMA CopyArtifactInvariant ==
  ASSUME IInv, NEW u \in Uploads, CopyArtifact(u)
  PROVE  IInv'
<1>1. up[u].phase \in Working
  BY DEF CopyArtifact, Working
<1>2. CASE up[u].version.fingerprint \in DOMAIN artifacts
  BY <1>1, <1>2, UseExistingInvariant DEF CopyArtifact
<1>3. CASE up[u].version.fingerprint \notin DOMAIN artifacts
  <2>1. PICK r : r = [up[u] EXCEPT !.phase = "copying"]
    OBVIOUS
  <2>2. up' = [up EXCEPT ![u] = r]
    BY <1>3, <2>1 DEF CopyArtifact
  <2>3. r \in Upload /\ Sound(r) /\ r.why = up[u].why
    BY <1>1, <2>1, Moves
  <2>4. up[u].phase # "created" /\ (Undisturbed => up[u].why \notin {"integrity", "storage"})
    BY <1>1 DEF Working, IInv, UndisturbedUploadsAreAccepted, Undisturbed
  <2>5. QED
    BY <2>2, <2>3, <2>4, OneUpload DEF CopyArtifact
<1>4. QED
  BY <1>2, <1>3

LEMMA StorageErrorInvariant ==
  ASSUME IInv, NEW u \in Uploads, StorageError(u)
  PROVE  IInv'
<1>1. PICK r : r = Refused(up[u], "storage")
  OBVIOUS
<1>2. r \in Upload /\ Sound(r)
  BY <1>1, RefusedIsSound
<1>3. faults \in Nat /\ faults' = faults + 1 /\ up[u].phase # "created"
  BY DEF StorageError, Working, IInv, TypesOK
<1>4. /\ up' = [up EXCEPT ![u] = r]
      /\ UNCHANGED <<artifacts, versions, encoder, damage, hurt>>
      /\ faults' \in {faults, faults + 1} /\ ~(faults' = faults)
  BY <1>1, <1>3 DEF StorageError
<1>5. QED
  BY <1>2, <1>3, <1>4, OneUpload

\* The new artifact is what its fingerprint says; the others stay.
LEMMA ReplaceArtifactInvariant ==
  ASSUME IInv, NEW u \in Uploads, ReplaceArtifact(u)
  PROVE  IInv'
<1>1. up[u].phase \in Working
  BY DEF ReplaceArtifact, Working
<1>2. PICK version : version = up[u].version
  OBVIOUS
<1>3. CASE version.fingerprint \in DOMAIN artifacts
  BY <1>1, <1>2, <1>3, UseExistingInvariant DEF ReplaceArtifact
<1>4. CASE version.fingerprint \notin DOMAIN artifacts
  <2>1. PICK f, artifact, r :
          /\ f = version.fingerprint
          /\ artifact = [files |-> up[u].tree, thumbnails |-> version.thumbnails]
          /\ r = [up[u] EXCEPT !.phase = "copied"]
    OBVIOUS
  <2>2. /\ artifacts' = WithArtifact(f, artifact)
        /\ up' = [up EXCEPT ![u] = r]
    BY <1>2, <1>4, <2>1 DEF ReplaceArtifact
  <2>3. /\ versions' = versions /\ encoder' = encoder /\ faults' = faults
        /\ damage' = damage /\ hurt' = hurt
    BY DEF ReplaceArtifact
  <2>4. /\ DOMAIN artifacts' = DOMAIN artifacts \cup {f} /\ f \notin DOMAIN artifacts
        /\ artifacts' = [g \in DOMAIN artifacts' |-> artifacts'[g]]
        /\ artifacts'[f] = artifact
        /\ \A g \in DOMAIN artifacts : artifacts'[g] = artifacts[g]
    BY <1>4, <2>1, <2>2 DEF WithArtifact
  <2>5. /\ up[u] \in Upload /\ version \in Versions /\ f = Fingerprint(up[u].tree)
        /\ up[u].tree \in Trees
    <3>1. up[u] \in Upload
      BY DEF IInv, TypesOK
    <3>2. QED
      BY <1>1, <1>2, <2>1, <3>1 DEF Upload, IInv, IndexedFromTree
  <2>6. artifact \in Artifact /\ artifact.files = up[u].tree
        /\ artifact.thumbnails = version.thumbnails
    BY <2>1, <2>5 DEF Artifact
  <2>7. /\ r \in Upload /\ r.phase = "copied" /\ r.tree = up[u].tree /\ r.version = version
        /\ r.manifests = up[u].manifests /\ r.why = up[u].why
    BY <1>2, <2>1, <2>5 DEF Upload
  <2>8. /\ up' \in [Uploads -> Upload]
        /\ \A v \in Uploads : up'[v] = IF v = u THEN r ELSE up[v]
    BY <2>2, <2>7 DEF IInv, TypesOK
  <2>9. TypesOK'
    <3>1. artifacts' \in [DOMAIN artifacts' -> Artifact]
      BY <2>4, <2>6 DEF IInv, TypesOK
    <3>2. QED
      BY <2>3, <2>8, <3>1 DEF IInv, TypesOK
  <2>10. IndexedFromTree'
    BY <1>1, <1>2, <2>7, <2>8 DEF IInv, IndexedFromTree
  <2>11. CheckedVerify'
    <3>1. ASSUME NEW v \in Uploads, up'[v].phase \in {"copied", "created"}, v \notin hurt
          PROVE  Verifies(up[v].version)'
      <4>1. CASE v = u
        <5>1. up'[v].version = version
          BY <2>7, <2>8, <4>1
        <5>2. /\ f \in DOMAIN artifacts' /\ Fingerprint(artifacts'[f].files) = f
              /\ version.thumbnails \subseteq artifacts'[f].thumbnails
          BY <2>4, <2>5, <2>6
        <5>3. QED
          BY <2>1, <5>1, <5>2 DEF Verifies
      <4>2. CASE v # u
        <5>1. up'[v] = up[v] /\ Verifies(up[v].version)
          BY <2>8, <3>1, <4>2 DEF IInv, CheckedVerify
        <5>2. QED
          BY <2>4, <5>1 DEF Verifies
      <4>3. QED
        BY <4>1, <4>2
    <3>2. QED
      BY <2>3, <3>1 DEF CheckedVerify
  <2>12. MetadataOfAccepted'
    BY <1>1, <2>3, <2>8 DEF IInv, MetadataOfAccepted, Working
  <2>13. ServersAgree'
    BY <2>3 DEF IInv, ServersAgree, Undisturbed
  <2>14. ArtifactsAreWhole'
    <3>1. SUFFICES ASSUME Undisturbed, NEW g \in DOMAIN artifacts'
                   PROVE  /\ Fingerprint(artifacts'[g].files) = g
                          /\ \A s \in Servers :
                               Thumbnails(artifacts'[g].files, encoder[s]) = artifacts'[g].thumbnails
      BY <2>3 DEF ArtifactsAreWhole, Undisturbed
    <3>2. CASE g \in DOMAIN artifacts
      BY <2>4, <3>1, <3>2 DEF IInv, ArtifactsAreWhole
    <3>3. CASE g = f
      <4>1. PICK s \in Servers : version = IndexUploadedProject(up[u].tree, encoder[s])
        BY <1>1, <1>2, <3>1 DEF IInv, IndexedByServer
      <4>2. version.thumbnails = Thumbnails(up[u].tree, encoder[s])
        BY <4>1, IndexFacts
      <4>3. \A t \in Servers : encoder[t] = encoder[s]
        BY <3>1 DEF IInv, ServersAgree
      <4>4. QED
        BY <2>4, <2>5, <2>6, <3>3, <4>2, <4>3
    <3>4. QED
      BY <2>4, <3>1, <3>2, <3>3
  <2>15. IndexedByServer'
    BY <1>1, <1>2, <2>3, <2>7, <2>8 DEF IInv, IndexedByServer, Undisturbed
  <2>16. UndisturbedUploadsAreAccepted'
    BY <2>3, <2>7, <2>8 DEF IInv, UndisturbedUploadsAreAccepted
  <2>17. ComesFromArchive'
    BY <1>2, <2>7, <2>8 DEF IInv, ComesFromArchive
  <2>18. QED
    BY <2>9, <2>10, <2>11, <2>12, <2>13, <2>14, <2>15, <2>16, <2>17 DEF IInv
<1>5. QED
  BY <1>3, <1>4

\* Metadata is written of an upload whose artifact was checked.
LEMMA WriteMetadataInvariant ==
  ASSUME IInv, NEW u \in Uploads, WriteMetadata(u)
  PROVE  IInv'
<1>1. PICK q, r : q = up[u] /\ r = [q EXCEPT !.phase = "created", !.tree = {}]
  OBVIOUS
<1>2. /\ q \in Upload /\ q.phase = "copied" /\ up' = [up EXCEPT ![u] = r]
      /\ versions' = [versions EXCEPT ![u] = q.version]
  BY <1>1, Zenon DEF WriteMetadata, IInv, TypesOK
<1>3. /\ artifacts' = artifacts /\ encoder' = encoder /\ faults' = faults
      /\ damage' = damage /\ hurt' = hurt
  BY DEF WriteMetadata
<1>4. r \in Upload
  <2>1. {} \in Trees
    BY DEF Trees
  <2>2. QED
    BY <1>1, <1>2, <2>1 DEF Upload
<1>5. {"phase", "tree", "version", "manifests", "why"} \subseteq DOMAIN q
  BY <1>2 DEF Upload
<1>6. /\ r.phase = "created" /\ r.version = q.version /\ r.manifests = q.manifests
      /\ r.why = q.why
  BY <1>1, <1>5
<1>7. /\ up' \in [Uploads -> Upload]
      /\ \A v \in Uploads : up'[v] = IF v = u THEN r ELSE up[v]
  BY <1>2, <1>4 DEF IInv, TypesOK
<1>8. q.version \in Versions
  BY <1>1, <1>2 DEF IInv, IndexedFromTree, Working
<1>9. /\ versions' \in [Uploads -> Versions \cup {None}]
      /\ \A v \in Uploads : versions'[v] = IF v = u THEN q.version ELSE versions[v]
  BY <1>2, <1>8 DEF IInv, TypesOK
<1>10. TypesOK'
  BY <1>3, <1>7, <1>9 DEF IInv, TypesOK
<1>11. IndexedFromTree' /\ IndexedByServer'
  BY <1>3, <1>6, <1>7 DEF IInv, IndexedFromTree, IndexedByServer, Working, Undisturbed
<1>12. CheckedVerify'
  BY <1>1, <1>2, <1>3, <1>6, <1>7 DEF IInv, CheckedVerify, Verifies
<1>13. MetadataOfAccepted'
  BY <1>6, <1>7, <1>9 DEF IInv, MetadataOfAccepted
<1>14. ServersAgree' /\ ArtifactsAreWhole'
  BY <1>3 DEF IInv, ServersAgree, ArtifactsAreWhole, Undisturbed
<1>15. UndisturbedUploadsAreAccepted'
  BY <1>1, <1>3, <1>6, <1>7 DEF IInv, UndisturbedUploadsAreAccepted
<1>16. ComesFromArchive'
  <2>1. \A v \in Uploads : up'[v].version = up[v].version /\ up'[v].manifests = up[v].manifests
    BY <1>1, <1>6, <1>7
  <2>2. QED
    BY <2>1 DEF IInv, ComesFromArchive
<1>17. QED
  BY <1>10, <1>11, <1>12, <1>13, <1>14, <1>15, <1>16 DEF IInv

\* What a server was storing when it stopped is forgotten.
LEMMA RestartInvariant ==
  ASSUME IInv, NEW s \in Servers, Restart(s)
  PROVE  IInv'
<1>1. PICK e \in Encoders : encoder' = [encoder EXCEPT ![s] = e]
  BY DEF Restart
<1>2. /\ faults \in Nat /\ faults' = faults + 1 /\ artifacts' = artifacts
      /\ versions' = versions /\ damage' = damage /\ hurt' = hurt
  BY DEF Restart, IInv, TypesOK
<1>3. ~Undisturbed'
  BY <1>2 DEF Undisturbed
<1>4. ASSUME NEW u \in Uploads
      PROVE  /\ up'[u] \in Upload
             /\ \/ up'[u] = up[u]
                \/ up[u].phase \in Working /\ up'[u].phase = "lost" /\ up'[u].version = None
  <2>1. PICK q, r : q = Refused(up[u], "none") /\ r = [q EXCEPT !.phase = "lost"]
    OBVIOUS
  <2>2. up[u] \in Upload /\ q \in Upload /\ q.version = None
    BY <2>1, RefusedFacts DEF IInv, TypesOK
  <2>3. {"phase", "version"} \subseteq DOMAIN q
    BY <2>2 DEF Upload
  <2>4. r \in Upload
    BY <2>1, <2>2 DEF Upload
  <2>5. r.phase = "lost" /\ r.version = None
    BY <2>1, <2>2, <2>3
  <2>6. up'[u] = IF up[u].server = s /\ up[u].phase \in Working THEN r ELSE up[u]
    BY <2>1 DEF Restart
  <2>7. QED
    BY <2>2, <2>4, <2>5, <2>6
<1>5. TypesOK'
  <2>1. encoder' \in [Servers -> Encoders]
    BY <1>1 DEF IInv, TypesOK
  <2>2. up' = [u \in Uploads |-> up'[u]]
    BY DEF Restart
  <2>3. up' \in [Uploads -> Upload]
    BY <1>4, <2>2
  <2>4. QED
    BY <1>2, <2>1, <2>3 DEF IInv, TypesOK
<1>6. IndexedFromTree'
  BY <1>4 DEF IInv, IndexedFromTree, Working
<1>7. CheckedVerify'
  <2>1. ASSUME NEW u \in Uploads, up'[u].phase \in {"copied", "created"}, u \notin hurt
        PROVE  Verifies(up[u].version)'
    <3>1. up'[u] = up[u] /\ Verifies(up[u].version)
      BY <1>4, <2>1 DEF IInv, CheckedVerify
    <3>2. QED
      BY <1>2, <3>1 DEF Verifies
  <2>2. QED
    BY <1>2, <2>1 DEF CheckedVerify
<1>8. MetadataOfAccepted'
  <2>1. ASSUME NEW u \in Uploads, versions[u] # None
        PROVE  up'[u].phase = "created" /\ versions[u] = up'[u].version
    BY <1>4, <2>1 DEF IInv, MetadataOfAccepted, Working
  <2>2. QED
    BY <1>2, <2>1 DEF MetadataOfAccepted
<1>9. ServersAgree' /\ ArtifactsAreWhole' /\ IndexedByServer'
  BY <1>3 DEF ServersAgree, ArtifactsAreWhole, IndexedByServer
<1>10. UndisturbedUploadsAreAccepted'
  BY <1>3 DEF UndisturbedUploadsAreAccepted, Undisturbed
<1>11. ComesFromArchive'
  BY <1>4 DEF IInv, ComesFromArchive
<1>12. QED
  BY <1>5, <1>6, <1>7, <1>8, <1>9, <1>10, <1>11 DEF IInv

\* The uploads whose artifact is damaged after they checked it are in hurt.
LEMMA DamageInvariant ==
  ASSUME IInv, NEW f \in DOMAIN artifacts, Damage(f)
  PROVE  IInv'
<1>1. /\ up' = up /\ versions' = versions /\ encoder' = encoder /\ faults' = faults
      /\ damage \in Nat /\ damage' = damage + 1
      /\ hurt' = hurt \cup {u \in Uploads : /\ up[u].phase \in {"copied", "created"}
                                            /\ up[u].version.fingerprint = f}
  BY DEF Damage, IInv, TypesOK
<1>2. ~Undisturbed'
  BY <1>1 DEF Undisturbed
<1>3. PICK artifact \in Artifact : artifacts' = [artifacts EXCEPT ![f] = artifact]
  <2>1. artifacts[f] \in Artifact
    BY DEF IInv, TypesOK
  <2>2. CASE \E x \in artifacts[f].files : artifacts' = [artifacts EXCEPT ![f].files = @ \ {x}]
    <3>1. PICK x : artifacts' = [artifacts EXCEPT ![f].files = @ \ {x}]
      BY <2>2
    <3>2. PICK a : a = [artifacts[f] EXCEPT !.files = @ \ {x}]
      OBVIOUS
    <3>3. a \in Artifact
      BY <2>1, <3>2 DEF Artifact
    <3>4. QED
      BY <3>1, <3>2, <3>3
  <2>3. CASE \E x \in artifacts[f].thumbnails :
               artifacts' = [artifacts EXCEPT ![f].thumbnails = @ \ {x}]
    <3>1. PICK x : artifacts' = [artifacts EXCEPT ![f].thumbnails = @ \ {x}]
      BY <2>3
    <3>2. PICK a : a = [artifacts[f] EXCEPT !.thumbnails = @ \ {x}]
      OBVIOUS
    <3>3. a \in Artifact
      BY <2>1, <3>2 DEF Artifact
    <3>4. QED
      BY <3>1, <3>2, <3>3
  <2>4. QED
    BY <2>2, <2>3 DEF Damage
<1>4. /\ DOMAIN artifacts' = DOMAIN artifacts
      /\ artifacts' \in [DOMAIN artifacts' -> Artifact]
      /\ \A g \in DOMAIN artifacts : g # f => artifacts'[g] = artifacts[g]
  BY <1>3 DEF IInv, TypesOK
<1>5. TypesOK'
  BY <1>1, <1>4 DEF IInv, TypesOK
<1>6. IndexedFromTree' /\ MetadataOfAccepted' /\ ComesFromArchive'
  BY <1>1 DEF IInv, IndexedFromTree, MetadataOfAccepted, ComesFromArchive
<1>7. CheckedVerify'
  <2>1. ASSUME NEW u \in Uploads, up[u].phase \in {"copied", "created"}, u \notin hurt'
        PROVE  Verifies(up[u].version)'
    <3>1. Verifies(up[u].version) /\ up[u].version.fingerprint # f
      BY <1>1, <2>1 DEF IInv, CheckedVerify
    <3>2. QED
      BY <1>1, <1>4, <3>1 DEF Verifies
  <2>2. QED
    BY <1>1, <2>1 DEF CheckedVerify
<1>8. ServersAgree' /\ ArtifactsAreWhole' /\ IndexedByServer' /\ UndisturbedUploadsAreAccepted'
  BY <1>2 DEF ServersAgree, ArtifactsAreWhole, IndexedByServer, UndisturbedUploadsAreAccepted,
     Undisturbed
<1>9. QED
  BY <1>5, <1>6, <1>7, <1>8 DEF IInv

\* Every step preserves the invariant.
LEMMA StepInvariant == IInv /\ [Next]_vars => IInv'
<1> SUFFICES ASSUME IInv, [Next]_vars PROVE IInv'
  OBVIOUS
<1>1. CASE Next
  BY <1>1, ReceiveInvariant, CopyArtifactInvariant, ReplaceArtifactInvariant,
     WriteMetadataInvariant, StorageErrorInvariant, RestartInvariant, DamageInvariant DEF Next
<1>2. CASE UNCHANGED vars
  BY <1>2 DEF vars, IInv, TypesOK, IndexedFromTree, CheckedVerify, Verifies, MetadataOfAccepted,
     ServersAgree, ArtifactsAreWhole, IndexedByServer, Undisturbed,
     UndisturbedUploadsAreAccepted, ComesFromArchive
<1>3. QED
  BY <1>1, <1>2
-----------------------------------------------------------------------------
\* The inductive invariant holds in every reachable state.
THEOREM Invariance == Spec => []IInv
BY InitInvariant, StepInvariant, PTL DEF Spec

\* Metadata is only ever there for an artifact of the sources it was indexed
\* from with the previews it names, until that artifact is damaged.
THEOREM AcceptedAreReadable == Spec => []AcceptedStayReadable
<1>1. IInv => AcceptedStayReadable
  BY DEF IInv, MetadataOfAccepted, CheckedVerify, Verifies, AcceptedStayReadable, Fingerprint
<1>2. QED
  BY <1>1, Invariance, PTL

\* However many servers and uploads race for one artifact, a valid project is
\* refused only after a storage error, a restart or damage.
THEOREM ValidUploadsAreAccepted == Spec => []UndisturbedUploadsAreAccepted
BY Invariance, PTL DEF IInv

\* For any archive: indexing finds the packages that were validated.
THEOREM AcceptedRootsAreWhole == Spec => []AcceptedRootIsWhole
<1>1. IInv => AcceptedRootIsWhole
  <2>1. ASSUME IInv, NEW u \in Uploads, up[u].version # None
        PROVE  up[u].manifests > 0 /\ Cardinality(up[u].version.packages) = up[u].manifests
    <3>1. PICK x \in Extracted, e \in Encoders :
            /\ x.error = "none" /\ up[u].manifests = x.manifests
            /\ up[u].version = IndexUploadedProject(x.tree, e)
      BY <2>1 DEF IInv, ComesFromArchive
    <3>2. QED
      BY <3>1, ExtractedFacts, IndexFacts
  <2>2. QED
    BY <2>1 DEF AcceptedRootIsWhole
<1>2. QED
  BY <1>1, Invariance, PTL

\* For any archive, whatever it declares: what is unpacked before it is
\* refused exceeds the limit by one file at most.
THEOREM DiskUseStaysBounded == Spec => []DiskUseIsBounded
<1>1. IInv => DiskUseIsBounded
  <2>1. ASSUME IInv, NEW u \in Uploads PROVE up[u].bytes <= MaxTotal + MaxFile
    <3>1. up[u].bytes \in {x.bytes : x \in Extracted} \cup {0}
      BY <2>1 DEF IInv, TypesOK, Upload
    <3>2. MaxTotal \in Nat /\ MaxFile \in Nat
      BY LimitsAssumption
    <3>3. CASE up[u].bytes = 0
      BY <3>2, <3>3
    <3>4. CASE up[u].bytes # 0
      BY <3>1, <3>4, ExtractedFacts
    <3>5. QED
      BY <3>3, <3>4
  <2>2. QED
    BY <2>1 DEF DiskUseIsBounded
<1>2. QED
  BY <1>1, Invariance, PTL
=============================================================================
