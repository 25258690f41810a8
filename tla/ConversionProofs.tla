-------------------------- MODULE ConversionProofs --------------------------
(***************************************************************************)
(* Proofs about Conversion, for any selections, rules, limits and digests, *)
(* any number of jobs, uploads and edits.                                  *)
(*                                                                         *)
(* The first part is about the operators: what the loop that registers     *)
(* images has done after each of them, hence what a bundle holds.  The     *)
(* second is about the cycle of uploads, conversions, applies and edits.   *)
(***************************************************************************)
EXTENDS Conversion, FiniteSetTheorems, SequenceTheorems, WellFoundedInduction, TLAPS

AllAssets == UNION {{Asset(s, key) : key \in Keys(s)} : s \in Selections}
ImageNames == AllAssets \X (0..MaxPackage)
AllNames == ImageNames \cup {Component.name}
AllIds == {Digest(name, attempt) : name \in AllNames, attempt \in 0..MaxAttempts}
Resource == [id : AllIds, kind : {"image", "component"}, name : AllNames, folder : {"assets", "other"}]

IdsDiffer(resources) ==
  \A i, k \in DOMAIN resources : resources[i].id = resources[k].id => i = k

\* A package of which no id is given twice, and of whose registered images
\* each has its file.
Sound(project) ==
  /\ Package \in DOMAIN project
  /\ project[Package] \in Seq(Resource)
  /\ IdsDiffer(project[Package])
  /\ \A i \in DOMAIN project[Package] :
       project[Package][i].kind = "image" /\ project[Package][i].folder = "assets" =>
         <<"image", project[Package][i].name>> \in DOMAIN project
-----------------------------------------------------------------------------
(* Numbers, sequences and functions.                                       *)

LEMMA BoundsAreNat == MaxPackage \in Nat /\ MaxAttempts \in Nat /\ MaxEdits \in Nat
  BY BoundsAssumption

\* A set of numbers has a least one.
LEMMA Least ==
  ASSUME NEW S, S \subseteq Nat, S # {}
  PROVE  \E m \in S : \A n \in S : m <= n
<1>1. PICK m \in S : \A n \in S : ~ (<<n, m>> \in OpToRel(<, Nat))
  BY NatLessThanWellFounded, WFMin
<1>2. \A n \in S : ~ (n < m)
  BY <1>1 DEF OpToRel
<1>3. QED
  BY <1>2

\* Min is that element, and the only one.
LEMMA MinIsLeast ==
  ASSUME NEW S, S \subseteq Nat, S # {}
  PROVE  Min(S) \in S /\ \A n \in S : Min(S) <= n
BY Least DEF Min

LEMMA MinIs ==
  ASSUME NEW S, S \subseteq Nat, NEW m \in S, \A n \in S : m <= n
  PROVE  Min(S) = m
<1>1. Min(S) \in S /\ Min(S) <= m /\ m <= Min(S)
  BY MinIsLeast
<1>2. m \in Nat /\ Min(S) \in Nat
  BY <1>1
<1>3. QED
  BY <1>1, <1>2

\* A set of numbers with a bound has a greatest one.
LEMMA MaxIsGreatest ==
  ASSUME NEW S, NEW len \in Nat, S \subseteq 1..len, S # {}
  PROVE  Max(S) \in S /\ \A n \in S : n <= Max(S)
<1>1. PICK T : T = {len - n : n \in S}
  OBVIOUS
<1>2. T \subseteq Nat /\ T # {}
  <2>1. \A n \in S : len - n \in Nat
    OBVIOUS
  <2>2. QED
    BY <1>1, <2>1
<1>3. PICK t \in T : \A n \in T : t <= n
  BY <1>2, Least
<1>4. PICK m \in S : t = len - m
  BY <1>1, <1>3
<1>5. \A n \in S : n <= m
  <2>1. TAKE n \in S
  <2>2. len - n \in T /\ n \in Nat /\ m \in Nat
    BY <1>1
  <2>3. QED
    BY <1>3, <1>4, <2>2
<1>6. \A n \in S : n <= m /\ m >= n
  BY <1>5
<1>7. Max(S) \in S /\ \A n \in S : Max(S) >= n
  BY <1>6, Zenon DEF Max
<1>8. QED
  BY <1>7

LEMMA MaxIs ==
  ASSUME NEW S, S \subseteq Nat, NEW m \in S, \A n \in S : n <= m
  PROVE  Max(S) = m
<1>1. \A n \in S : m >= n
  OBVIOUS
<1>2. Max(S) \in S /\ \A n \in S : Max(S) >= n
  BY <1>1, Zenon DEF Max
<1>3. m \in Nat /\ Max(S) \in Nat /\ Max(S) >= m /\ m >= Max(S)
  BY <1>1, <1>2
<1>4. QED
  BY <1>3

\* Induction up to a bound, with the set of the numbers it has reached.
LEMMA UpTo ==
  ASSUME NEW len \in Nat, NEW S, 0 \in S, \A k \in 1..len : k - 1 \in S => k \in S
  PROVE  0..len \subseteq S
<1>1. SUFFICES ASSUME (0..len) \ S # {} PROVE FALSE
  OBVIOUS
<1>2. PICK m \in (0..len) \ S : \A n \in (0..len) \ S : m <= n
  <2>1. (0..len) \ S \subseteq Nat
    OBVIOUS
  <2>2. QED
    BY <1>1, <2>1, Least
<1>3. m \in 1..len /\ m - 1 \in 0..len /\ ~(m <= m - 1)
  BY <1>2
<1>4. m - 1 \in S
  BY <1>2, <1>3
<1>5. QED
  BY <1>2, <1>3, <1>4

LEMMA ResourcesFacts ==
  ASSUME NEW resources \in Seq(Resource)
  PROVE  /\ Len(resources) \in Nat
         /\ DOMAIN resources = 1..Len(resources)
         /\ \A i \in DOMAIN resources : resources[i] \in Resource
BY LenProperties, ElementOfSeq

LEMMA AppendFacts ==
  ASSUME NEW resources \in Seq(Resource), NEW item \in Resource
  PROVE  /\ Append(resources, item) \in Seq(Resource)
         /\ Len(Append(resources, item)) = Len(resources) + 1
         /\ DOMAIN Append(resources, item) = 1..(Len(resources) + 1)
         /\ \A i \in DOMAIN resources : Append(resources, item)[i] = resources[i]
         /\ Append(resources, item)[Len(resources) + 1] = item
<1>1. Len(resources) \in Nat /\ DOMAIN resources = 1..Len(resources)
  BY ResourcesFacts
<1>2. QED
  BY <1>1, AppendProperties, LenProperties
-----------------------------------------------------------------------------
(* Names and ids that are free.                                            *)

LEMMA ExistingFacts ==
  ASSUME NEW resources \in Seq(Resource), NEW name
  PROVE  /\ Existing(resources, name) \in 0..Len(resources)
         /\ Existing(resources, name) # 0 =>
              /\ Existing(resources, name) \in DOMAIN resources
              /\ resources[Existing(resources, name)].kind = "image"
              /\ resources[Existing(resources, name)].name = name
         /\ Existing(resources, name) = 0 =>
              \A i \in DOMAIN resources : ~ (resources[i].kind = "image" /\ resources[i].name = name)
<1>1. PICK len \in Nat : len = Len(resources) /\ DOMAIN resources = 1..len
  BY ResourcesFacts
<1>2. PICK S : S = {i \in DOMAIN resources : resources[i].kind = "image" /\ resources[i].name = name}
  OBVIOUS
<1>3. Existing(resources, name) = IF S = {} THEN 0 ELSE Max(S)
  BY <1>2 DEF Existing
<1>4. CASE S = {}
  BY <1>1, <1>2, <1>3, <1>4
<1>5. CASE S # {}
  <2>1. S \subseteq 1..len
    BY <1>1, <1>2
  <2>2. Max(S) \in S
    BY <1>5, <2>1, MaxIsGreatest
  <2>3. QED
    BY <1>1, <1>2, <1>3, <1>5, <2>1, <2>2
<1>6. QED
  BY <1>4, <1>5

\* A resource added last is found by its name, and hides no other.
LEMMA ExistingAfterAppend ==
  ASSUME NEW resources \in Seq(Resource), NEW item \in Resource, NEW name, item.kind = "image"
  PROVE  Existing(Append(resources, item), name) =
           IF item.name = name THEN Len(resources) + 1 ELSE Existing(resources, name)
<1>1. PICK more : more = Append(resources, item)
  OBVIOUS
<1>2. PICK len \in Nat : len = Len(resources) /\ DOMAIN resources = 1..len
  BY ResourcesFacts
<1>3. /\ DOMAIN more = 1..(len + 1) /\ more[len + 1] = item
      /\ \A i \in 1..len : more[i] = resources[i]
  BY <1>1, <1>2, AppendFacts
<1>4. PICK S : S = {i \in DOMAIN resources : resources[i].kind = "image" /\ resources[i].name = name}
  OBVIOUS
<1>5. PICK T : T = {i \in DOMAIN more : more[i].kind = "image" /\ more[i].name = name}
  OBVIOUS
<1>6. Existing(more, name) = IF T = {} THEN 0 ELSE Max(T)
  BY <1>5 DEF Existing
<1>7. CASE item.name = name
  <2>1. len + 1 \in T /\ T \subseteq Nat /\ \A n \in T : n <= len + 1
    BY <1>3, <1>5, <1>7
  <2>2. Max(T) = len + 1
    BY <2>1, MaxIs
  <2>3. QED
    BY <1>1, <1>2, <1>6, <1>7, <2>1, <2>2
<1>8. CASE item.name # name
  <2>1. T = S
    BY <1>2, <1>3, <1>4, <1>5, <1>8
  <2>2. Existing(resources, name) = IF S = {} THEN 0 ELSE Max(S)
    BY <1>4 DEF Existing
  <2>3. QED
    BY <1>1, <1>6, <1>8, <2>1, <2>2
<1>9. QED
  BY <1>7, <1>8

\* Of the names of an asset one more than the package has resources are tried.
LEMMA NameIsFree ==
  ASSUME NEW resources \in Seq(Resource), Len(resources) <= MaxPackage, NEW asset
  PROVE  \E n \in 0..MaxPackage : Existing(resources, <<asset, n>>) = 0
<1>1. SUFFICES ASSUME \A n \in 0..MaxPackage : Existing(resources, <<asset, n>>) # 0 PROVE FALSE
  OBVIOUS
<1>2. PICK f : f = [n \in 0..MaxPackage |-> Existing(resources, <<asset, n>>)]
  OBVIOUS
<1>3. MaxPackage \in Nat /\ Len(resources) \in Nat /\ DOMAIN resources = 1..Len(resources)
  BY BoundsAreNat, ResourcesFacts
<1>4. f \in [0..MaxPackage -> 1..Len(resources)]
  BY <1>1, <1>2, <1>3, ExistingFacts
<1>5. /\ IsFiniteSet(0..MaxPackage) /\ Cardinality(0..MaxPackage) = MaxPackage + 1
      /\ IsFiniteSet(1..Len(resources)) /\ Cardinality(1..Len(resources)) = Len(resources)
  <2>1. PICK len \in Nat : len = Len(resources)
    BY <1>3
  <2>2. IsFiniteSet(0..MaxPackage) /\ Cardinality(0..MaxPackage) = MaxPackage + 1
    BY <1>3, FS_Interval
  <2>3. IsFiniteSet(1..len) /\ Cardinality(1..len) = len
    BY FS_Interval
  <2>4. QED
    BY <2>1, <2>2, <2>3
<1>6. Cardinality(1..Len(resources)) < Cardinality(0..MaxPackage)
  BY <1>3, <1>5
<1>7. PICK x, y \in 0..MaxPackage : x # y /\ f[x] = f[y]
  BY <1>4, <1>5, <1>6, FS_PigeonHole
<1>8. resources[f[x]].name = <<asset, x>> /\ resources[f[y]].name = <<asset, y>>
  BY <1>1, <1>2, ExistingFacts
<1>9. QED
  BY <1>7, <1>8

\* The names _resolved_asset_name stops at.
Usable(project, resources, asset, n) ==
  \/ Existing(resources, <<asset, n>>) = 0
  \/ MatchesRegisteredAsset(project, resources[Existing(resources, <<asset, n>>)], asset[3])

LEMMA ResolvedFacts ==
  ASSUME NEW resources \in Seq(Resource), Len(resources) <= MaxPackage, NEW asset, NEW project
  PROVE  \E n \in 0..MaxPackage :
           /\ ResolvedAssetName(project, resources, asset) = <<asset, n>>
           /\ Usable(project, resources, asset, n)
           /\ \A k \in 0..(n - 1) : ~ Usable(project, resources, asset, k)
<1>1. PICK S : S = {n \in 0..MaxPackage : Usable(project, resources, asset, n)}
  OBVIOUS
<1>2. S \subseteq Nat /\ S # {}
  <2>1. PICK n \in 0..MaxPackage : Existing(resources, <<asset, n>>) = 0
    BY NameIsFree
  <2>2. n \in S
    BY <1>1, <2>1 DEF Usable
  <2>3. QED
    BY <1>1, <2>2, BoundsAreNat
<1>3. Min(S) \in S /\ \A n \in S : Min(S) <= n
  BY <1>2, MinIsLeast
<1>4. ResolvedAssetName(project, resources, asset) = <<asset, Min(S)>>
  BY <1>1 DEF ResolvedAssetName, Usable
<1>5. \A k \in 0..(Min(S) - 1) : k \in 0..MaxPackage /\ k \notin S
  BY <1>1, <1>2, <1>3, BoundsAreNat
<1>6. QED
  BY <1>1, <1>3, <1>4, <1>5

LEMMA ResolvedIs ==
  ASSUME NEW resources, NEW asset, NEW project, NEW n \in 0..MaxPackage,
         Usable(project, resources, asset, n),
         \A k \in 0..(n - 1) : ~ Usable(project, resources, asset, k)
  PROVE  ResolvedAssetName(project, resources, asset) = <<asset, n>>
<1>1. PICK S : S = {k \in 0..MaxPackage : Usable(project, resources, asset, k)}
  OBVIOUS
<1>2. S \subseteq Nat /\ n \in S /\ \A k \in S : n <= k
  BY <1>1, BoundsAreNat
<1>3. Min(S) = n
  BY <1>2, MinIs
<1>4. ResolvedAssetName(project, resources, asset) = <<asset, Min(S)>>
  BY <1>1 DEF ResolvedAssetName, Usable
<1>5. QED
  BY <1>3, <1>4

\* A new id is one no resource has.
LEMMA IdIsFree ==
  ASSUME NEW resources \in Seq(Resource), Len(resources) <= MaxPackage, NEW name \in ImageNames,
         NEW registered
  PROVE  /\ MakeResourceId(name, resources, registered) \in AllIds
         /\ MakeResourceId(name, resources, registered) \notin Ids(resources)
<1>1. PICK D : D = {Digest(name, n) : n \in 0..MaxAttempts}
  OBVIOUS
<1>2. Cardinality(D) > MaxPackage
  <2>1. PICK s \in Selections : \E key \in Keys(s), n \in 0..MaxPackage : name = <<Asset(s, key), n>>
    BY DEF ImageNames, AllAssets
  <2>2. PICK key \in Keys(s), n \in 0..MaxPackage : name = <<Asset(s, key), n>>
    BY <2>1
  <2>3. Cardinality({Digest(<<Asset(s, key), n>>, attempt) : attempt \in 0..MaxAttempts}) > MaxPackage
    BY DigestAssumption
  <2>4. QED
    BY <1>1, <2>2, <2>3, Zenon
<1>3. IsFiniteSet(Ids(resources)) /\ Cardinality(Ids(resources)) <= Len(resources)
  <2>1. Len(resources) \in Nat /\ DOMAIN resources = 1..Len(resources)
    BY ResourcesFacts
  <2>2. PICK f : f = [i \in DOMAIN resources |-> resources[i].id]
    OBVIOUS
  <2>3. f \in Surjection(1..Len(resources), Ids(resources))
    BY <2>1, <2>2 DEF Surjection, Ids
  <2>4. IsFiniteSet(1..Len(resources)) /\ Cardinality(1..Len(resources)) = Len(resources)
    <3>1. ASSUME NEW len \in Nat
          PROVE  IsFiniteSet(1..len) /\ Cardinality(1..len) = len
      <4>1. /\ IsFiniteSet(1..len)
            /\ Cardinality(1..len) = IF 1 > len THEN 0 ELSE len - 1 + 1
        BY FS_Interval
      <4>2. QED
        BY <4>1
    <3>2. QED
      BY <2>1, <3>1
  <2>5. QED
    BY <2>3, <2>4, FS_Surjection
<1>4. PICK S : S = {n \in 0..MaxAttempts : Digest(name, n) \notin Ids(resources)}
  OBVIOUS
<1>5. S # {}
  <2>1. SUFFICES ASSUME S = {} PROVE FALSE
    OBVIOUS
  <2>2. D \subseteq Ids(resources)
    BY <1>1, <1>4, <2>1
  <2>3. Cardinality(D) <= Cardinality(Ids(resources))
    BY <1>3, <2>2, FS_Subset
  <2>4. Cardinality(D) \in Nat /\ Cardinality(Ids(resources)) \in Nat
    BY <1>3, <2>2, FS_Subset, FS_CardinalityType
  <2>5. QED
    BY <1>2, <1>3, <2>3, <2>4, BoundsAreNat, ResourcesFacts
<1>6. Min(S) \in S
  <2>1. S \subseteq Nat
    BY <1>4, BoundsAreNat
  <2>2. QED
    BY <1>5, <2>1, MinIsLeast
<1>7. MakeResourceId(name, resources, registered) = Digest(name, Min(S))
  BY <1>4 DEF MakeResourceId
<1>8. Min(S) \in 0..MaxAttempts /\ Digest(name, Min(S)) \notin Ids(resources)
  BY <1>4, <1>6
<1>9. Digest(name, Min(S)) \in AllIds
  BY <1>8 DEF AllIds, AllNames
<1>10. QED
  BY <1>7, <1>8, <1>9
-----------------------------------------------------------------------------
(* Registering one image.                                                  *)

\* The image of that name is there and is this one.
Reuses(project, done, asset, n, next) ==
  LET i == Existing(done.resources, <<asset, n>>)
  IN  /\ i # 0
      /\ MatchesRegisteredAsset(project, done.resources[i], asset[3])
      /\ next.resources = done.resources
      /\ next.names = Over([a \in {asset} |-> [id |-> done.resources[i].id, name |-> <<asset, n>>]], done.names)
      /\ next.written = done.written

\* The name is free, and gets a resource with an id none has.
Adds(done, asset, n, item, next) ==
  /\ Existing(done.resources, <<asset, n>>) = 0
  /\ item \in Resource /\ item.id \notin Ids(done.resources)
  /\ item.kind = "image" /\ item.name = <<asset, n>> /\ item.folder = "assets"
  /\ next.resources = Append(done.resources, item)
  /\ next.names = Over([a \in {asset} |-> [id |-> item.id, name |-> <<asset, n>>]], done.names)
  /\ next.written = Over([p \in {<<"image", <<asset, n>>>>} |-> asset[3]], done.written)

\* Register does one or the other, at the first name that allows it.
LEMMA RegisterFacts ==
  ASSUME NEW project, NEW done, done.resources \in Seq(Resource),
         Len(done.resources) <= MaxPackage, NEW asset \in AllAssets
  PROVE  \E n \in 0..MaxPackage :
           /\ \A k \in 0..(n - 1) : ~ Usable(project, done.resources, asset, k)
           /\ \/ Reuses(project, done, asset, n, Register(project, done, asset))
              \/ \E item : Adds(done, asset, n, item, Register(project, done, asset))
<1>1. PICK n \in 0..MaxPackage :
        /\ ResolvedAssetName(project, done.resources, asset) = <<asset, n>>
        /\ Usable(project, done.resources, asset, n)
        /\ \A k \in 0..(n - 1) : ~ Usable(project, done.resources, asset, k)
  BY ResolvedFacts
<1>2. PICK i : i = Existing(done.resources, <<asset, n>>)
  OBVIOUS
<1>3. PICK id : id = MakeResourceId(<<asset, n>>, done.resources, project[Package])
  OBVIOUS
<1>4. <<asset, n>> \in ImageNames
  BY DEF ImageNames
<1>5. CASE i # 0
  <2>1. MatchesRegisteredAsset(project, done.resources[i], asset[3])
    BY <1>1, <1>2, <1>5 DEF Usable
  <2>2. Register(project, done, asset) =
          [resources |-> done.resources,
           names |-> Over([a \in {asset} |-> [id |-> done.resources[i].id, name |-> <<asset, n>>]], done.names),
           written |-> done.written]
    BY <1>1, <1>2, <1>5, <2>1, Zenon DEF Register
  <2>3. Reuses(project, done, asset, n, Register(project, done, asset))
    BY <1>2, <1>5, <2>1, <2>2 DEF Reuses
  <2>4. QED
    BY <1>1, <2>3
<1>6. CASE i = 0
  <2>1. PICK item : item = [id |-> id, kind |-> "image", name |-> <<asset, n>>, folder |-> "assets"]
    OBVIOUS
  <2>2. id \in AllIds /\ id \notin Ids(done.resources)
    BY <1>3, <1>4, IdIsFree
  <2>3. item \in Resource
    BY <1>4, <2>1, <2>2 DEF Resource, AllNames
  <2>4. Register(project, done, asset) =
          [resources |-> Append(done.resources, item),
           names |-> Over([a \in {asset} |-> [id |-> item.id, name |-> <<asset, n>>]], done.names),
           written |-> Over([p \in {<<"image", <<asset, n>>>>} |-> asset[3]], done.written)]
    BY <1>1, <1>2, <1>3, <1>6, <2>1 DEF Register
  <2>5. Adds(done, asset, n, item, Register(project, done, asset))
    BY <1>2, <1>6, <2>1, <2>2, <2>3, <2>4 DEF Adds
  <2>6. QED
    BY <1>1, <2>5
<1>7. QED
  BY <1>5, <1>6

\* What the loop of _write_package_resources keeps: the package is extended,
\* by resources with new ids and written files,
Extended(project, done) ==
  /\ done.resources \in Seq(Resource)
  /\ IdsDiffer(done.resources)
  /\ Len(project[Package]) <= Len(done.resources)
  /\ \A i \in DOMAIN project[Package] : done.resources[i] = project[Package][i]
  /\ \A i \in DOMAIN done.resources : i > Len(project[Package]) =>
       <<"image", done.resources[i].name>> \in DOMAIN done.written

\* an asset that was dealt with is registered, with a file that holds it,
Held(project, done, a) ==
  \E i \in DOMAIN done.resources, n \in 0..MaxPackage :
    /\ done.names[a] = [id |-> done.resources[i].id, name |-> <<a, n>>]
    /\ done.resources[i].kind = "image" /\ done.resources[i].folder = "assets"
    /\ done.resources[i].name = <<a, n>>
    /\ \/ <<"image", <<a, n>>>> \in DOMAIN done.written
       \/ <<"image", <<a, n>>>> \in DOMAIN project /\ project[<<"image", <<a, n>>>>] = a[3]

\* and a file that is written holds such an asset, and is of no image the
\* package had.
Written(project, done, assets, p) ==
  \E a \in assets, n \in 0..MaxPackage :
    /\ p = <<"image", <<a, n>>>>
    /\ done.written[p] = a[3]
    /\ \A i \in DOMAIN project[Package] :
         ~ (project[Package][i].kind = "image" /\ project[Package][i].name = <<a, n>>)

Done(project, done, assets) ==
  /\ Extended(project, done)
  /\ DOMAIN done.names = assets
  /\ \A a \in assets : Held(project, done, a)
  /\ \A p \in DOMAIN done.written : Written(project, done, assets, p)

LEMMA ReuseKeepsDone ==
  ASSUME NEW project, NEW done, NEW assets, NEW asset, NEW n \in 0..MaxPackage, NEW next,
         Done(project, done, assets), Reuses(project, done, asset, n, next)
  PROVE  Done(project, next, assets \cup {asset})
<1>1. PICK i : i = Existing(done.resources, <<asset, n>>)
  OBVIOUS
<1>2. PICK image : image = [id |-> done.resources[i].id, name |-> <<asset, n>>]
  OBVIOUS
<1>3. /\ i # 0 /\ MatchesRegisteredAsset(project, done.resources[i], asset[3])
      /\ next.resources = done.resources /\ next.written = done.written
      /\ next.names = Over([a \in {asset} |-> image], done.names)
  BY <1>1, <1>2 DEF Reuses
<1>4. /\ i \in DOMAIN done.resources
      /\ done.resources[i].kind = "image" /\ done.resources[i].name = <<asset, n>>
  BY <1>1, <1>3, ExistingFacts DEF Done, Extended
<1>5. /\ DOMAIN next.names = assets \cup {asset}
      /\ next.names[asset] = image
      /\ \A a \in assets \ {asset} : next.names[a] = done.names[a]
  <2>1. DOMAIN done.names = assets
    BY DEF Done
  <2>2. QED
    BY <1>3, <2>1 DEF Over
<1>6. Extended(project, next)
  BY <1>3 DEF Done, Extended
<1>7. Held(project, next, asset)
  <2>1. /\ done.resources[i].folder = "assets"
        /\ <<"image", <<asset, n>>>> \in DOMAIN project
        /\ project[<<"image", <<asset, n>>>>] = asset[3]
    BY <1>3, <1>4 DEF MatchesRegisteredAsset
  <2>2. next.names[asset] = [id |-> next.resources[i].id, name |-> <<asset, n>>]
    BY <1>2, <1>3, <1>5
  <2>3. /\ i \in DOMAIN next.resources /\ next.resources[i].kind = "image"
        /\ next.resources[i].folder = "assets" /\ next.resources[i].name = <<asset, n>>
    BY <1>3, <1>4, <2>1
  <2>4. QED
    BY <2>1, <2>2, <2>3 DEF Held
<1>8. \A a \in assets \ {asset} : Held(project, next, a)
  <2>1. TAKE a \in assets \ {asset}
  <2>2. Held(project, done, a) /\ next.names[a] = done.names[a]
    BY <1>5 DEF Done
  <2>3. QED
    BY <1>3, <2>2 DEF Held
<1>9. \A p \in DOMAIN next.written : Written(project, next, assets \cup {asset}, p)
  <2>1. TAKE p \in DOMAIN next.written
  <2>2. Written(project, done, assets, p)
    BY <1>3 DEF Done
  <2>3. QED
    BY <1>3, <2>2 DEF Written
<1>10. QED
  BY <1>5, <1>6, <1>7, <1>8, <1>9 DEF Done

LEMMA AddKeepsDone ==
  ASSUME NEW project, NEW done, NEW assets, NEW asset, NEW n \in 0..MaxPackage, NEW item, NEW next,
         project[Package] \in Seq(Resource),
         Done(project, done, assets), Adds(done, asset, n, item, next)
  PROVE  Done(project, next, assets \cup {asset})
<1>1. PICK image : image = [id |-> item.id, name |-> <<asset, n>>]
  OBVIOUS
<1>2. PICK path : path = <<"image", <<asset, n>>>>
  OBVIOUS
<1>3. /\ Existing(done.resources, <<asset, n>>) = 0
      /\ item \in Resource /\ item.id \notin Ids(done.resources)
      /\ item.kind = "image" /\ item.name = <<asset, n>> /\ item.folder = "assets"
      /\ next.resources = Append(done.resources, item)
      /\ next.names = Over([a \in {asset} |-> image], done.names)
      /\ next.written = Over([p \in {path} |-> asset[3]], done.written)
  BY <1>1, <1>2 DEF Adds
<1>4. PICK len \in Nat : /\ len = Len(done.resources) /\ DOMAIN done.resources = 1..len
                         /\ done.resources \in Seq(Resource)
  BY ResourcesFacts DEF Done, Extended
<1>5. /\ next.resources \in Seq(Resource) /\ Len(next.resources) = len + 1
      /\ DOMAIN next.resources = 1..(len + 1)
      /\ \A i \in 1..len : next.resources[i] = done.resources[i]
      /\ next.resources[len + 1] = item
  BY <1>3, <1>4, AppendFacts
<1>6. PICK old \in Nat : /\ old = Len(project[Package]) /\ DOMAIN project[Package] = 1..old
                         /\ old <= len
  BY <1>4, ResourcesFacts DEF Done, Extended
<1>7. /\ DOMAIN next.names = assets \cup {asset}
      /\ next.names[asset] = image
      /\ \A a \in assets \ {asset} : next.names[a] = done.names[a]
  <2>1. DOMAIN done.names = assets
    BY DEF Done
  <2>2. QED
    BY <1>3, <2>1 DEF Over
<1>8. /\ DOMAIN next.written = DOMAIN done.written \cup {path}
      /\ next.written[path] = asset[3]
      /\ \A p \in DOMAIN done.written : p # path => next.written[p] = done.written[p]
  BY <1>3 DEF Over
<1>9. IdsDiffer(next.resources)
  <2>1. \A i \in 1..len : done.resources[i].id # item.id
    BY <1>3, <1>4 DEF Ids
  <2>2. \A i, k \in 1..len : done.resources[i].id = done.resources[k].id => i = k
    BY <1>4 DEF Done, Extended, IdsDiffer
  <2>3. QED
    BY <1>5, <2>1, <2>2 DEF IdsDiffer
<1>10. Extended(project, next)
  <2>1. \A i \in DOMAIN project[Package] : next.resources[i] = project[Package][i]
    <3>1. \A i \in 1..old : i \in 1..len /\ done.resources[i] = project[Package][i]
      BY <1>6 DEF Done, Extended
    <3>2. QED
      BY <1>5, <1>6, <3>1
  <2>2. \A i \in 1..len : i > old => <<"image", next.resources[i].name>> \in DOMAIN next.written
    BY <1>4, <1>5, <1>6, <1>8 DEF Done, Extended
  <2>3. <<"image", next.resources[len + 1].name>> \in DOMAIN next.written
    BY <1>2, <1>3, <1>5, <1>8
  <2>4. QED
    BY <1>5, <1>6, <1>9, <2>1, <2>2, <2>3 DEF Extended
<1>11. Held(project, next, asset)
  <2>1. <<"image", <<asset, n>>>> \in DOMAIN next.written
    BY <1>2, <1>8
  <2>2. len + 1 \in DOMAIN next.resources
    BY <1>5
  <2>3. QED
    BY <1>1, <1>3, <1>5, <1>7, <2>1, <2>2 DEF Held
<1>12. \A a \in assets \ {asset} : Held(project, next, a)
  <2>1. TAKE a \in assets \ {asset}
  <2>2. Held(project, done, a) /\ next.names[a] = done.names[a]
    BY <1>7 DEF Done
  <2>3. PICK i \in DOMAIN done.resources, m \in 0..MaxPackage :
          /\ done.names[a] = [id |-> done.resources[i].id, name |-> <<a, m>>]
          /\ done.resources[i].kind = "image" /\ done.resources[i].folder = "assets"
          /\ done.resources[i].name = <<a, m>>
          /\ \/ <<"image", <<a, m>>>> \in DOMAIN done.written
             \/ <<"image", <<a, m>>>> \in DOMAIN project /\ project[<<"image", <<a, m>>>>] = a[3]
    BY <2>2 DEF Held
  <2>4. i \in DOMAIN next.resources /\ next.resources[i] = done.resources[i]
    BY <1>4, <1>5
  <2>5. \/ <<"image", <<a, m>>>> \in DOMAIN next.written
        \/ <<"image", <<a, m>>>> \in DOMAIN project /\ project[<<"image", <<a, m>>>>] = a[3]
    BY <1>8, <2>3
  <2>6. QED
    BY <2>2, <2>3, <2>4, <2>5 DEF Held
<1>13. \A p \in DOMAIN next.written : Written(project, next, assets \cup {asset}, p)
  <2>1. TAKE p \in DOMAIN next.written
  <2>2. CASE p = path
    <3>1. \A i \in DOMAIN project[Package] :
            ~ (project[Package][i].kind = "image" /\ project[Package][i].name = <<asset, n>>)
      <4>1. \A i \in 1..len : ~ (done.resources[i].kind = "image" /\ done.resources[i].name = <<asset, n>>)
        BY <1>3, <1>4, ExistingFacts
      <4>2. \A i \in 1..old : i \in 1..len /\ done.resources[i] = project[Package][i]
        BY <1>6 DEF Done, Extended
      <4>3. QED
        BY <1>6, <4>1, <4>2
    <3>2. QED
      BY <1>2, <1>8, <2>2, <3>1 DEF Written
  <2>3. CASE p # path
    <3>1. p \in DOMAIN done.written /\ next.written[p] = done.written[p]
      BY <1>8, <2>3
    <3>2. Written(project, done, assets, p)
      BY <3>1 DEF Done
    <3>3. QED
      BY <3>1, <3>2 DEF Written
  <2>4. QED
    BY <2>2, <2>3
<1>14. QED
  BY <1>7, <1>10, <1>11, <1>12, <1>13 DEF Done
-----------------------------------------------------------------------------
(* The loop over the images of a selection.                                *)

LEMMA SelectionFacts ==
  ASSUME NEW s \in Selections
  PROVE  /\ Len(s.resources) \in Nat /\ DOMAIN s.resources = 1..Len(s.resources)
         /\ Len(s.roots) \in Nat /\ DOMAIN s.roots = 1..Len(s.roots)
<1>1. /\ s.resources \in Seq([key : Keys(s), content : Contents, size : Nat])
      /\ s.roots \in Seq(Range(s.roots))
  BY SelectionsAssumption
<1>2. QED
  BY <1>1, LenProperties

\* What the loop has done after n resources, if it had done f[n - 1] before.
LoopStep(project, s, f, n) ==
  IF n = 0 THEN [resources |-> project[Package], names |-> << >>, written |-> << >>]
  ELSE IF s.resources[n].key \in Assets(s)
  THEN Register(project, f[n - 1], Asset(s, s.resources[n].key))
  ELSE f[n - 1]

Looped(project, s, len) ==
  \E f : DOMAIN f = 0..len /\ \A n \in 0..len : f[n] = LoopStep(project, s, f, n)

\* The recursive definition defines the function it describes.
LEMMA RegistrationsFacts ==
  ASSUME NEW project, NEW s \in Selections
  PROVE  \A n \in 0..Len(s.resources) :
           Registrations(project, s)[n] = LoopStep(project, s, Registrations(project, s), n)
<1>1. PICK len \in Nat : len = Len(s.resources)
  BY SelectionFacts
<1>2. Looped(project, s, 0)
  <2>1. PICK f : f = [n \in 0..0 |-> [resources |-> project[Package], names |-> << >>, written |-> << >>]]
    OBVIOUS
  <2>2. DOMAIN f = 0..0 /\ \A n \in 0..0 : f[n] = LoopStep(project, s, f, n)
    BY <2>1 DEF LoopStep
  <2>3. QED
    BY <2>2 DEF Looped
<1>3. ASSUME NEW k \in 1..len, Looped(project, s, k - 1)
      PROVE  Looped(project, s, k)
  <2>1. PICK f : DOMAIN f = 0..(k - 1) /\ \A n \in 0..(k - 1) : f[n] = LoopStep(project, s, f, n)
    BY <1>3 DEF Looped
  <2>2. PICK last : last = LoopStep(project, s, f, k)
    OBVIOUS
  <2>3. PICK g : g = [n \in 0..k |-> IF n = k THEN last ELSE f[n]]
    OBVIOUS
  <2>4. DOMAIN g = 0..k /\ g[k] = last /\ \A n \in 0..(k - 1) : g[n] = f[n]
    BY <2>3
  <2>5. \A n \in 0..(k - 1) : g[n] = LoopStep(project, s, g, n)
    <3>1. \A n \in 1..(k - 1) : n - 1 \in 0..(k - 1)
      OBVIOUS
    <3>2. QED
      BY <2>1, <2>4, <3>1 DEF LoopStep
  <2>6. g[k] = LoopStep(project, s, g, k)
    <3>1. k - 1 \in 0..(k - 1)
      OBVIOUS
    <3>2. QED
      BY <2>2, <2>4, <3>1 DEF LoopStep
  <2>7. \A n \in 0..k : g[n] = LoopStep(project, s, g, n)
    BY <2>5, <2>6
  <2>8. QED
    BY <2>4, <2>7 DEF Looped
<1>4. Looped(project, s, len)
  <2>1. PICK S : S = {k \in 0..len : Looped(project, s, k)}
    OBVIOUS
  <2>2. 0 \in S
    BY <1>2, <2>1
  <2>3. \A k \in 1..len : k - 1 \in S => k \in S
    BY <1>3, <2>1
  <2>4. 0..len \subseteq S
    BY <2>2, <2>3, UpTo
  <2>5. QED
    BY <2>1, <2>4
<1>5. PICK h : DOMAIN h = 0..len /\ \A n \in 0..len : h[n] = LoopStep(project, s, h, n)
  BY <1>4 DEF Looped
<1>6. PICK g : g = [n \in 0..len |-> h[n]]
  OBVIOUS
<1>7. \A n \in 0..len : g[n] = LoopStep(project, s, g, n)
  <2>1. \A n \in 1..len : n - 1 \in 0..len
    OBVIOUS
  <2>2. QED
    BY <1>5, <1>6, <2>1 DEF LoopStep
<1>8. g = [n \in 0..len |-> LoopStep(project, s, g, n)]
  BY <1>6, <1>7
<1>9. Registrations(project, s) = CHOOSE f : f = [n \in 0..len |-> LoopStep(project, s, f, n)]
  BY <1>1, Zenon DEF Registrations, LoopStep
<1>10. Registrations(project, s) = [n \in 0..len |-> LoopStep(project, s, Registrations(project, s), n)]
  BY <1>8, <1>9, Zenon
<1>11. PICK f : f = Registrations(project, s)
  OBVIOUS
<1>12. f = [n \in 0..len |-> LoopStep(project, s, f, n)]
  BY <1>10, <1>11
<1>13. \A n \in 0..len : f[n] = LoopStep(project, s, f, n)
  BY <1>12, Zenon
<1>14. QED
  BY <1>1, <1>11, <1>13

\* The assets the loop has dealt with after n resources.
RegisteredUpTo(s, n) ==
  {Asset(s, s.resources[i].key) : i \in {i \in 1..n : s.resources[i].key \in Assets(s)}}

\* Every key a panel refers to is one the selection declares.
LEMMA AssetsAreDeclared ==
  ASSUME NEW s \in Selections, Valid(s)
  PROVE  Assets(s) \subseteq Keys(s)
<1>1. \A r \in Range(s.roots) : \A n \in Nodes(r) : n.resources \subseteq Keys(s)
  BY DEF Valid, UnknownResource
<1>2. \A i \in Panels(s) : s.roots[i] \in Range(s.roots)
  BY DEF Panels, Range
<1>3. \A i \in Panels(s) : References(s.roots[i]) \subseteq Keys(s)
  BY <1>1, <1>2 DEF References
<1>4. QED
  BY <1>3 DEF Assets

\* After n resources the assets among them are done, and the package has at
\* most n resources more.
LEMMA LoopFacts ==
  ASSUME NEW s \in Selections, NEW project, Sound(project), Fits(project, s)
  PROVE  \A n \in 0..Len(s.resources) :
           /\ Done(project, Registrations(project, s)[n], RegisteredUpTo(s, n))
           /\ Len(Registrations(project, s)[n].resources) <= Len(project[Package]) + n
<1>1. PICK len \in Nat : len = Len(s.resources) /\ DOMAIN s.resources = 1..len
  BY SelectionFacts
<1>2. PICK D : D = Registrations(project, s)
  OBVIOUS
<1>3. \A n \in 0..len : D[n] = LoopStep(project, s, D, n)
  BY <1>1, <1>2, RegistrationsFacts
<1>4. PICK old \in Nat : /\ old = Len(project[Package]) /\ DOMAIN project[Package] = 1..old
                         /\ project[Package] \in Seq(Resource) /\ IdsDiffer(project[Package])
                         /\ old + len <= MaxPackage
  BY <1>1, ResourcesFacts DEF Sound, Fits
<1>5. /\ Done(project, D[0], RegisteredUpTo(s, 0))
      /\ Len(D[0].resources) <= old + 0
  <2>1. D[0] = [resources |-> project[Package], names |-> << >>, written |-> << >>]
    BY <1>3 DEF LoopStep
  <2>2. D[0].resources = project[Package] /\ DOMAIN D[0].names = {} /\ DOMAIN D[0].written = {}
    BY <2>1
  <2>3. RegisteredUpTo(s, 0) = {}
    BY DEF RegisteredUpTo
  <2>4. Extended(project, D[0])
    BY <1>4, <2>2 DEF Extended
  <2>5. QED
    BY <1>4, <2>2, <2>3, <2>4 DEF Done
<1>6. ASSUME NEW n \in 1..len,
             Done(project, D[n - 1], RegisteredUpTo(s, n - 1)),
             Len(D[n - 1].resources) <= old + (n - 1)
      PROVE  Done(project, D[n], RegisteredUpTo(s, n)) /\ Len(D[n].resources) <= old + n
  <2>1. PICK done : done = D[n - 1]
    OBVIOUS
  <2>2. PICK key : key = s.resources[n].key
    OBVIOUS
  <2>3. PICK before : before = RegisteredUpTo(s, n - 1)
    OBVIOUS
  <2>4. /\ Done(project, done, before) /\ done.resources \in Seq(Resource)
        /\ Len(done.resources) \in Nat /\ Len(done.resources) <= old + (n - 1)
    BY <1>6, <2>1, <2>3, ResourcesFacts DEF Done, Extended
  <2>5. CASE key \in Assets(s)
    <3>1. PICK asset : asset = Asset(s, key)
      OBVIOUS
    <3>2. D[n] = Register(project, done, asset)
      BY <1>3, <2>1, <2>2, <2>5, <3>1 DEF LoopStep
    <3>3. RegisteredUpTo(s, n) = before \cup {asset}
      BY <2>2, <2>3, <2>5, <3>1 DEF RegisteredUpTo
    <3>4. asset \in AllAssets
      BY <1>1, <2>2, <3>1 DEF AllAssets, Keys
    <3>5. Len(done.resources) <= MaxPackage
      <4>1. MaxPackage \in Nat /\ n <= len
        BY BoundsAreNat
      <4>2. QED
        BY <1>4, <2>4, <4>1
    <3>6. PICK m \in 0..MaxPackage :
            \/ Reuses(project, done, asset, m, D[n])
            \/ \E item : Adds(done, asset, m, item, D[n])
      BY <2>4, <3>2, <3>4, <3>5, RegisterFacts
    <3>7. CASE Reuses(project, done, asset, m, D[n])
      <4>1. Done(project, D[n], before \cup {asset})
        BY <2>4, <3>7, ReuseKeepsDone
      <4>2. Len(D[n].resources) <= old + n
        BY <2>4, <3>7 DEF Reuses
      <4>3. QED
        BY <3>3, <4>1, <4>2
    <3>8. ASSUME NEW item, Adds(done, asset, m, item, D[n])
          PROVE  Done(project, D[n], before \cup {asset}) /\ Len(D[n].resources) <= old + n
      <4>1. Done(project, D[n], before \cup {asset})
        BY <1>4, <2>4, <3>8, AddKeepsDone
      <4>2. Len(D[n].resources) = Len(done.resources) + 1
        BY <2>4, <3>8, AppendFacts DEF Adds
      <4>3. QED
        BY <2>4, <4>1, <4>2
    <3>9. QED
      BY <3>3, <3>6, <3>7, <3>8
  <2>6. CASE key \notin Assets(s)
    <3>1. D[n] = done
      BY <1>3, <2>1, <2>2, <2>6 DEF LoopStep
    <3>2. RegisteredUpTo(s, n) = before
      BY <2>2, <2>3, <2>6 DEF RegisteredUpTo
    <3>3. QED
      BY <2>4, <3>1, <3>2
  <2>7. QED
    BY <2>5, <2>6
<1>7. PICK S : S = {n \in 0..len : /\ Done(project, D[n], RegisteredUpTo(s, n))
                                  /\ Len(D[n].resources) <= old + n}
  OBVIOUS
<1>8. 0 \in S /\ \A n \in 1..len : n - 1 \in S => n \in S
  BY <1>5, <1>6, <1>7
<1>9. 0..len \subseteq S
  BY <1>8, UpTo
<1>10. QED
  BY <1>1, <1>2, <1>4, <1>7, <1>9
-----------------------------------------------------------------------------
(* What a bundle holds.                                                    *)

AssetsOf(s) == {Asset(s, key) : key \in Assets(s)}

LEMMA PackageFacts ==
  ASSUME NEW s \in Selections, NEW project, Valid(s), Sound(project), Fits(project, s)
  PROVE  Done(project, PackageResources(project, s), AssetsOf(s))
<1>1. PICK len \in Nat : len = Len(s.resources) /\ DOMAIN s.resources = 1..len
  BY SelectionFacts
<1>2. Done(project, PackageResources(project, s), RegisteredUpTo(s, len))
  BY <1>1, LoopFacts DEF PackageResources
<1>3. RegisteredUpTo(s, len) = AssetsOf(s)
  <2>1. Assets(s) \subseteq {s.resources[i].key : i \in 1..len}
    BY <1>1, AssetsAreDeclared DEF Keys
  <2>2. QED
    BY <2>1 DEF RegisteredUpTo, AssetsOf
<1>4. QED
  BY <1>2, <1>3

LEMMA PathsDiffer ==
  /\ \A x : <<"image", x>> # Package /\ <<"panel", x>> # Package
  /\ \A x, y : <<"image", x>> # <<"panel", y>>
BY DEF Package

\* The panel a file is written for: the last of that name.
PanelOf(s, name) == Max({i \in Panels(s) : s.roots[i].name = name})

LEMMA PanelOfFacts ==
  ASSUME NEW s \in Selections, NEW i \in Panels(s)
  PROVE  /\ PanelOf(s, s.roots[i].name) \in Panels(s)
         /\ (\A k \in Panels(s) : s.roots[k].name = s.roots[i].name => k <= i) =>
              PanelOf(s, s.roots[i].name) = i
<1>1. PICK len \in Nat : DOMAIN s.roots = 1..len
  BY SelectionFacts
<1>2. PICK S : S = {k \in Panels(s) : s.roots[k].name = s.roots[i].name}
  OBVIOUS
<1>3. S \subseteq 1..len /\ S \subseteq Nat /\ i \in S
  BY <1>1, <1>2 DEF Panels
<1>4. PanelOf(s, s.roots[i].name) = Max(S)
  BY <1>2 DEF PanelOf
<1>5. Max(S) \in S
  BY <1>3, MaxIsGreatest
<1>6. (\A k \in S : k <= i) => Max(S) = i
  BY <1>3, MaxIs
<1>7. QED
  BY <1>2, <1>4, <1>5, <1>6

LEMMA ConvertFacts ==
  ASSUME NEW s \in Selections, NEW project, NEW package, NEW changes,
         package = PackageResources(project, s), changes = Convert(project, s),
         \A p \in DOMAIN package.written : Written(project, package, AssetsOf(s), p)
  PROVE  /\ Package \in DOMAIN changes <=> Assets(s) # {}
         /\ Package \in DOMAIN changes => changes[Package] = package.resources
         /\ \A name : <<"image", name>> \in DOMAIN changes <=> <<"image", name>> \in DOMAIN package.written
         /\ \A name : <<"image", name>> \in DOMAIN changes =>
              /\ Assets(s) # {}
              /\ changes[<<"image", name>>] = package.written[<<"image", name>>]
         /\ \A i \in Panels(s) :
              /\ <<"panel", s.roots[i].name>> \in DOMAIN changes
              /\ changes[<<"panel", s.roots[i].name>>] =
                   Panel(s, PanelOf(s, s.roots[i].name), package.names)
         /\ \A p \in DOMAIN changes :
              \/ p = Package
              \/ p \in DOMAIN package.written
              \/ \E i \in Panels(s) : p = <<"panel", s.roots[i].name>>
<1>1. PICK panels : panels = {<<"panel", s.roots[i].name>> : i \in Panels(s)}
  OBVIOUS
<1>2. PICK f : f = [p \in panels |-> Panel(s, PanelOf(s, p[2]), package.names)]
  OBVIOUS
<1>3. PICK g : g = Over(package.written, f)
  OBVIOUS
<1>4. PICK h : h = PackageFile(project, s, package)
  OBVIOUS
<1>5. changes = Over(h, g)
  BY <1>1, <1>2, <1>3, <1>4 DEF Convert, PanelOf
<1>6. \A p \in DOMAIN package.written : \E a \in AssetsOf(s), n \in 0..MaxPackage : p = <<"image", <<a, n>>>>
  BY DEF Written
<1>7. DOMAIN package.written # {} => Assets(s) # {}
  BY <1>6 DEF AssetsOf
<1>8. /\ Assets(s) # {} => DOMAIN h = {Package} /\ h[Package] = package.resources
      /\ Assets(s) = {} => DOMAIN h = {}
  BY <1>4 DEF PackageFile
<1>9. DOMAIN f = panels /\ \A p \in panels : f[p] = Panel(s, PanelOf(s, p[2]), package.names)
  BY <1>2
<1>10. /\ DOMAIN g = DOMAIN package.written \cup panels
       /\ \A p \in DOMAIN package.written : g[p] = package.written[p]
       /\ \A p \in panels : p \notin DOMAIN package.written => g[p] = f[p]
  BY <1>3, <1>9 DEF Over
<1>11. /\ DOMAIN changes = DOMAIN h \cup DOMAIN g
       /\ \A p \in DOMAIN h : changes[p] = h[p]
       /\ \A p \in DOMAIN g : p \notin DOMAIN h => changes[p] = g[p]
  BY <1>5 DEF Over
<1>12. Package \notin DOMAIN g
  BY <1>1, <1>6, <1>10, PathsDiffer
<1>13. \A name : <<"image", name>> \notin DOMAIN h /\ <<"image", name>> \notin panels
  BY <1>1, <1>8, PathsDiffer
<1>14. \A p \in panels : p \notin DOMAIN h /\ p \notin DOMAIN package.written
  BY <1>1, <1>6, <1>8, PathsDiffer
<1>15. \A i \in Panels(s) :
         /\ <<"panel", s.roots[i].name>> \in panels
         /\ f[<<"panel", s.roots[i].name>>] = Panel(s, PanelOf(s, s.roots[i].name), package.names)
  BY <1>1, <1>9
<1>16. Package \in DOMAIN changes <=> Assets(s) # {}
  BY <1>8, <1>11, <1>12
<1>17. Package \in DOMAIN changes => changes[Package] = package.resources
  BY <1>8, <1>11, <1>16
<1>18. \A name : <<"image", name>> \in DOMAIN changes <=> <<"image", name>> \in DOMAIN package.written
  BY <1>10, <1>11, <1>13
<1>19. \A name : <<"image", name>> \in DOMAIN changes =>
         /\ Assets(s) # {}
         /\ changes[<<"image", name>>] = package.written[<<"image", name>>]
  BY <1>7, <1>10, <1>11, <1>13
<1>20. \A i \in Panels(s) :
         /\ <<"panel", s.roots[i].name>> \in DOMAIN changes
         /\ changes[<<"panel", s.roots[i].name>>] = Panel(s, PanelOf(s, s.roots[i].name), package.names)
  BY <1>10, <1>11, <1>14, <1>15
<1>21. \A p \in DOMAIN changes :
         \/ p = Package
         \/ p \in DOMAIN package.written
         \/ \E i \in Panels(s) : p = <<"panel", s.roots[i].name>>
  BY <1>1, <1>8, <1>10, <1>11
<1>22. QED
  BY <1>16, <1>17, <1>18, <1>19, <1>20, <1>21

\* An image that is registered holds its asset once the bundle is applied.
LEMMA HeldImages ==
  ASSUME NEW s \in Selections, NEW project, Valid(s), Sound(project), Fits(project, s),
         NEW a \in AssetsOf(s)
  PROVE  LET image == PackageResources(project, s).names[a]
             after == Applied(project, Convert(project, s))
         IN  /\ \E r \in Range(PackageResources(project, s).resources) :
                  r.id = image.id /\ r.name = image.name /\ r.folder = "assets"
             /\ after[<<"image", image.name>>] = a[3]
<1>1. PICK package : package = PackageResources(project, s)
  OBVIOUS
<1>2. PICK changes : changes = Convert(project, s)
  OBVIOUS
<1>3. PICK after : after = Over(changes, project)
  OBVIOUS
<1>4. Done(project, package, AssetsOf(s))
  BY <1>1, PackageFacts
<1>5. PICK i \in DOMAIN package.resources, n \in 0..MaxPackage :
        /\ package.names[a] = [id |-> package.resources[i].id, name |-> <<a, n>>]
        /\ package.resources[i].folder = "assets" /\ package.resources[i].name = <<a, n>>
        /\ \/ <<"image", <<a, n>>>> \in DOMAIN package.written
           \/ <<"image", <<a, n>>>> \in DOMAIN project /\ project[<<"image", <<a, n>>>>] = a[3]
  BY <1>4 DEF Done, Held
<1>6. PICK path : path = <<"image", <<a, n>>>>
  OBVIOUS
<1>7. after[path] = a[3]
  <2>1. path \in DOMAIN package.written => package.written[path] = a[3]
    <3>1. SUFFICES ASSUME path \in DOMAIN package.written PROVE package.written[path] = a[3]
      OBVIOUS
    <3>2. PICK b \in AssetsOf(s), m \in 0..MaxPackage :
            path = <<"image", <<b, m>>>> /\ package.written[path] = b[3]
      BY <1>4, <3>1 DEF Done, Written
    <3>3. a = b
      BY <1>6, <3>2
    <3>4. QED
      BY <3>2, <3>3
  <2>2. /\ path \in DOMAIN changes <=> path \in DOMAIN package.written
        /\ path \in DOMAIN changes => changes[path] = package.written[path]
    BY <1>1, <1>2, <1>4, <1>6, ConvertFacts DEF Done
  <2>3. /\ path \in DOMAIN changes => after[path] = changes[path]
        /\ path \notin DOMAIN changes /\ path \in DOMAIN project => after[path] = project[path]
    BY <1>3 DEF Over
  <2>4. QED
    BY <1>5, <1>6, <2>1, <2>2, <2>3
<1>8. package.resources[i] \in Range(package.resources)
  BY <1>5 DEF Range
<1>9. QED
  BY <1>1, <1>2, <1>3, <1>5, <1>6, <1>7, <1>8 DEF Applied

\* A bundle keeps a package sound that is the one it was made from, or of
\* which it does not change the manifest.
LEMMA ApplyKeepsSound ==
  ASSUME NEW s \in Selections, NEW project, Valid(s), Sound(project), Fits(project, s),
         NEW target, Sound(target),
         Package \in DOMAIN Convert(project, s) => target[Package] = project[Package]
  PROVE  Sound(Applied(target, Convert(project, s)))
<1>1. PICK package : package = PackageResources(project, s)
  OBVIOUS
<1>2. PICK changes : changes = Convert(project, s)
  OBVIOUS
<1>3. PICK after : after = Over(changes, target)
  OBVIOUS
<1>4. Done(project, package, AssetsOf(s))
  BY <1>1, PackageFacts
<1>5. /\ DOMAIN after = DOMAIN changes \cup DOMAIN target
      /\ Package \in DOMAIN changes => after[Package] = changes[Package]
      /\ Package \notin DOMAIN changes => after[Package] = target[Package]
  BY <1>3 DEF Over, Sound
<1>6. ASSUME Package \notin DOMAIN changes PROVE Sound(after)
  BY <1>5, <1>6 DEF Sound
<1>7. ASSUME Package \in DOMAIN changes PROVE Sound(after)
  <2>1. after[Package] = package.resources
    BY <1>1, <1>2, <1>4, <1>5, <1>7, ConvertFacts DEF Done
  <2>2. package.resources \in Seq(Resource) /\ IdsDiffer(package.resources)
    BY <1>4 DEF Done, Extended
  <2>3. ASSUME NEW i \in DOMAIN package.resources,
               package.resources[i].kind = "image", package.resources[i].folder = "assets"
        PROVE  <<"image", package.resources[i].name>> \in DOMAIN after
    <3>1. PICK old \in Nat : old = Len(project[Package]) /\ DOMAIN project[Package] = 1..old
      BY ResourcesFacts DEF Sound
    <3>2. i \in Nat \ {0}
      BY <2>2, ResourcesFacts
    <3>3. CASE i > old
      <4>1. <<"image", package.resources[i].name>> \in DOMAIN package.written
        BY <1>4, <3>1, <3>3 DEF Done, Extended
      <4>2. <<"image", package.resources[i].name>> \in DOMAIN changes
        BY <1>1, <1>2, <1>4, <4>1, ConvertFacts DEF Done
      <4>3. QED
        BY <1>5, <4>2
    <3>4. CASE i <= old
      <4>1. i \in DOMAIN project[Package] /\ package.resources[i] = project[Package][i]
        BY <1>4, <3>1, <3>2, <3>4 DEF Done, Extended
      <4>2. target[Package] = project[Package]
        BY <1>2, <1>7
      <4>3. <<"image", target[Package][i].name>> \in DOMAIN target
        BY <2>3, <4>1, <4>2 DEF Sound
      <4>4. QED
        BY <1>5, <4>1, <4>2, <4>3
    <3>5. QED
      BY <3>1, <3>2, <3>3, <3>4
  <2>4. QED
    BY <1>5, <2>1, <2>2, <2>3 DEF Sound
<1>8. QED
  BY <1>2, <1>3, <1>6, <1>7 DEF Applied
-----------------------------------------------------------------------------
(* Outcomes.                                                               *)

LEMMA NodesAreClassified ==
  ASSUME NEW s \in Selections, NEW r \in Range(s.roots), NEW n \in Nodes(r)
  PROVE  OutputType(n) # None
<1>1. PICK S : S = {i \in DOMAIN Rules : Matches(n, Rules[i])}
  OBVIOUS
<1>2. S \subseteq Nat /\ S # {}
  BY <1>1, RulesAssumption
<1>3. Min(S) \in S
  BY <1>2, MinIsLeast
<1>4. OutputType(n) = Rules[Min(S)].output
  BY <1>1, <1>2 DEF OutputType
<1>5. QED
  BY <1>1, <1>3, <1>4, RulesAssumption

\* Some child of a panel is no finite distance from it.
FarChild(selection) ==
  \E i \in Panels(selection) : \E c \in Range(selection.roots[i].children) : c.far

\* A valid selection has no reference without a resource, and no node
\* without a decision: neither is what ends its conversion.
LEMMA RaisedConversions ==
  ASSUME NEW s \in Selections, NEW project, Valid(s), Outcome(project, s) = "raised"
  PROVE  form = "unindexable" \/ FarChild(s)
<1>1. ~ Unresolved(s)
  <2>1. \A r \in Range(s.roots) : \A n \in Nodes(r) : n.resources \subseteq Keys(s)
    BY DEF Valid, UnknownResource
  <2>2. \A r \in Range(s.roots) : References(r) \subseteq Keys(s)
    BY <2>1 DEF References
  <2>3. QED
    BY <2>2 DEF Unresolved
<1>2. ~ Unclassified(s)
  <2>1. \A r \in Range(s.roots) : OutputType(r) # None
    BY NodesAreClassified DEF Nodes
  <2>2. \A i \in DOMAIN s.roots : s.roots[i] \in Range(s.roots)
    BY DEF Range
  <2>3. QED
    BY <2>1, <2>2 DEF Unclassified
<1>3. ASSUME Raises(s) PROVE FarChild(s)
  <2>1. PICK step \in PanelSteps(s) :
          IsChild(s, step) /\ (Child(s, step).far \/ OutputType(Child(s, step)) = None)
    BY <1>3 DEF Raises
  <2>2. PICK i \in Panels(s) : step[1] = i
    BY <2>1 DEF PanelSteps
  <2>3. Child(s, step) \in Range(s.roots[i].children)
    BY <2>1, <2>2 DEF Child, IsChild, Range
  <2>4. s.roots[i] \in Range(s.roots)
    BY DEF Panels, Range
  <2>5. OutputType(Child(s, step)) # None
    BY <2>3, <2>4, NodesAreClassified DEF Nodes
  <2>6. QED
    BY <2>1, <2>3, <2>5 DEF FarChild
<1>4. QED
  BY <1>1, <1>2, <1>3 DEF Outcome
-----------------------------------------------------------------------------
(* The cycle.                                                              *)

Converted(job) == job.status \in {"ready", "applied", "apply_failed"}

\* A job has what its conversion made of the upload it was given, unless it
\* ended in an error.
JobOfConversion(job, found) ==
  /\ {"status", "selection", "source", "changes", "before"} = DOMAIN job
  /\ job.selection \in Selections /\ Valid(job.selection)
  /\ \/ /\ Converted(job)
        /\ Sound(job.source) /\ Fits(job.source, job.selection)
        /\ job.changes = Convert(job.source, job.selection)
        /\ job.before = [p \in DOMAIN job.changes |-> Content(job.source, p)]
     \/ job.status = "conversion_failed"
     \/ job.status = "raised" /\ (found = "unindexable" \/ FarChild(job.selection))

\* The inductive invariant.
IInv ==
  /\ Sound(files) /\ Sound(uploaded)
  /\ DOMAIN jobs = Jobs
  /\ \A j \in Jobs : jobs[j] # None => JobOfConversion(jobs[j], form)
  /\ edits \in 0..MaxEdits

LEMMA ComponentIsResource ==
  Component \in Resource
<1>1. Component.name \in AllNames /\ 0 \in 0..MaxAttempts
  BY BoundsAreNat DEF AllNames
<1>2. Component.id = Digest(Component.name, 0)
  BY DEF Component
<1>3. Component.id \in AllIds
  BY <1>1, <1>2 DEF AllIds
<1>4. QED
  BY <1>1, <1>3 DEF Component, Resource

LEMMA InitHolds == Init => IInv
<1>1. SUFFICES ASSUME Init PROVE IInv
  OBVIOUS
<1>2. Package \in DOMAIN files /\ (files[Package] = <<Component>> \/ files[Package] = << >>)
  BY <1>1 DEF Init
<1>3. <<Component>> \in Seq(Resource) /\ << >> \in Seq(Resource)
  BY ComponentIsResource
<1>4. PICK resources : resources = files[Package]
  OBVIOUS
<1>5. /\ resources \in Seq(Resource)
      /\ \A i \in DOMAIN resources : i = 1 /\ resources[i].kind = "component"
  <2>1. CASE resources = <<Component>>
    <3>1. \A i \in DOMAIN <<Component>> : i = 1 /\ <<Component>>[i].kind = "component"
      BY DEF Component
    <3>2. QED
      BY <1>3, <2>1, <3>1
  <2>2. CASE resources = << >>
    BY <1>3, <2>2
  <2>3. QED
    BY <1>2, <1>4, <2>1, <2>2
<1>6. Sound(files)
  BY <1>2, <1>4, <1>5 DEF Sound, IdsDiffer
<1>7. QED
  BY <1>1, <1>6, BoundsAreNat DEF Init, IInv

\* Taking a resource out of a package leaves the others.
LEMMA RemoveFacts ==
  ASSUME NEW resources \in Seq(Resource), NEW i \in DOMAIN resources
  PROVE  /\ RemoveAt(resources, i) \in Seq(Resource)
         /\ DOMAIN RemoveAt(resources, i) = 1..(Len(resources) - 1)
         /\ \A k \in 1..(Len(resources) - 1) :
              RemoveAt(resources, i)[k] = resources[IF k < i THEN k ELSE k + 1]
<1>1. PICK len \in Nat : len = Len(resources) /\ DOMAIN resources = 1..len
  BY ResourcesFacts
<1>2. i \in 1..len
  BY <1>1
<1>3. PICK a : a = SubSeq(resources, 1, i - 1)
  OBVIOUS
<1>4. PICK b : b = SubSeq(resources, i + 1, len)
  OBVIOUS
<1>5. a \in Seq(Resource) /\ Len(a) = i - 1 /\ \A k \in 1..(i - 1) : a[k] = resources[k]
  <2>1. \A k \in 1..(i - 1) : resources[k] \in Resource
    BY <1>1, <1>2, ResourcesFacts
  <2>2. QED
    BY <1>1, <1>2, <1>3, <2>1, SubSeqProperties
<1>6. b \in Seq(Resource) /\ Len(b) = len - i /\ \A k \in 1..(len - i) : b[k] = resources[i + k]
  <2>1. \A k \in (i + 1)..len : resources[k] \in Resource
    BY <1>1, <1>2, ResourcesFacts
  <2>2. QED
    BY <1>1, <1>2, <1>4, <2>1, SubSeqProperties
<1>7. RemoveAt(resources, i) = a \o b
  BY <1>1, <1>3, <1>4 DEF RemoveAt
<1>8. /\ a \o b \in Seq(Resource) /\ Len(a \o b) = len - 1
      /\ \A k \in 1..(len - 1) : (a \o b)[k] = IF k <= i - 1 THEN a[k] ELSE b[k - (i - 1)]
  <2>1. /\ a \o b \in Seq(Resource) /\ Len(a \o b) = Len(a) + Len(b)
        /\ \A k \in 1..(Len(a) + Len(b)) : (a \o b)[k] = IF k <= Len(a) THEN a[k] ELSE b[k - Len(a)]
    BY <1>5, <1>6, ConcatProperties
  <2>2. Len(a) = i - 1 /\ Len(a) + Len(b) = len - 1
    BY <1>2, <1>5, <1>6
  <2>3. QED
    BY <2>1, <2>2
<1>9. \A k \in 1..(len - 1) : (a \o b)[k] = resources[IF k < i THEN k ELSE k + 1]
  <2>1. TAKE k \in 1..(len - 1)
  <2>2. CASE k < i
    BY <1>2, <1>5, <1>8, <2>2
  <2>3. CASE ~ (k < i)
    <3>1. k - (i - 1) \in 1..(len - i) /\ i + (k - (i - 1)) = k + 1
      BY <1>2, <2>3
    <3>2. ~ (k <= i - 1)
      BY <1>2, <2>3
    <3>3. (a \o b)[k] = b[k - (i - 1)]
      BY <1>8, <3>2, Zenon
    <3>4. b[k - (i - 1)] = resources[k + 1]
      BY <1>6, <3>1
    <3>5. QED
      BY <2>3, <3>3, <3>4
  <2>4. QED
    BY <2>2, <2>3
<1>10. DOMAIN (a \o b) = 1..(len - 1)
  BY <1>8, LenProperties
<1>11. QED
  BY <1>1, <1>7, <1>8, <1>9, <1>10

LEMMA EditKeepsSound == IInv /\ Edit => Sound(files')
<1>1. SUFFICES ASSUME IInv, Edit PROVE Sound(files')
  OBVIOUS
<1>2. Sound(files)
  BY <1>1 DEF IInv
<1>3. PICK old : old = files[Package]
  OBVIOUS
<1>4. /\ old \in Seq(Resource) /\ IdsDiffer(old)
      /\ \A i \in DOMAIN old : old[i].kind = "image" /\ old[i].folder = "assets" =>
           <<"image", old[i].name>> \in DOMAIN files
  BY <1>2, <1>3 DEF Sound
<1>5. PICK len \in Nat : len = Len(old) /\ DOMAIN old = 1..len /\ \A i \in 1..len : old[i] \in Resource
  BY <1>4, ResourcesFacts
<1>6. ASSUME NEW i \in DOMAIN old, files' = [files EXCEPT ![Package] = RemoveAt(old, i)]
      PROVE  Sound(files')
  <2>1. PICK new : new = RemoveAt(old, i)
    OBVIOUS
  <2>2. DOMAIN files' = DOMAIN files /\ files'[Package] = new /\ Package \in DOMAIN files
    BY <1>2, <1>6, <2>1 DEF Sound
  <2>3. /\ new \in Seq(Resource) /\ DOMAIN new = 1..(len - 1)
        /\ \A k \in 1..(len - 1) : new[k] = old[IF k < i THEN k ELSE k + 1]
    BY <1>4, <1>5, <1>6, <2>1, RemoveFacts
  <2>4. \A k \in 1..(len - 1) : (IF k < i THEN k ELSE k + 1) \in 1..len
    BY <1>5, <1>6
  <2>5. IdsDiffer(new)
    <3>1. SUFFICES ASSUME NEW k \in 1..(len - 1), NEW m \in 1..(len - 1), new[k].id = new[m].id
                   PROVE  k = m
      BY <2>3 DEF IdsDiffer
    <3>2. (IF k < i THEN k ELSE k + 1) = (IF m < i THEN m ELSE m + 1)
      <4>1. PICK a \in 1..len : a = IF k < i THEN k ELSE k + 1
        BY <2>4
      <4>2. PICK b \in 1..len : b = IF m < i THEN m ELSE m + 1
        BY <2>4
      <4>3. old[a].id = old[b].id
        BY <2>3, <3>1, <4>1, <4>2
      <4>4. QED
        BY <1>4, <1>5, <4>1, <4>2, <4>3 DEF IdsDiffer
    <3>3. i \in Int
      BY <1>5, <1>6
    <3>4. QED
      BY <3>2, <3>3
  <2>6. \A k \in DOMAIN new : new[k].kind = "image" /\ new[k].folder = "assets" =>
          <<"image", new[k].name>> \in DOMAIN files
    BY <1>4, <1>5, <2>3, <2>4
  <2>7. QED
    BY <2>2, <2>3, <2>5, <2>6 DEF Sound
<1>7. ASSUME NEW i \in DOMAIN old, files' = [files EXCEPT ![Package][i].folder = "other"]
      PROVE  Sound(files')
  <2>1. PICK item : item = [old[i] EXCEPT !.folder = "other"]
    OBVIOUS
  <2>2. PICK new : new = [old EXCEPT ![i] = item]
    OBVIOUS
  <2>3. DOMAIN files' = DOMAIN files /\ files'[Package] = new /\ Package \in DOMAIN files
    BY <1>2, <1>3, <1>7, <2>1, <2>2 DEF Sound
  <2>4. old[i] \in Resource
    BY <1>5, <1>7
  <2>5. item \in Resource /\ item.id = old[i].id /\ item.folder = "other"
    BY <2>1, <2>4 DEF Resource
  <2>6. /\ new \in Seq(Resource) /\ DOMAIN new = DOMAIN old /\ new[i] = item
        /\ \A k \in DOMAIN old : k # i => new[k] = old[k]
    BY <1>4, <1>5, <1>7, <2>2, <2>5, ExceptSeq
  <2>7. \A k \in DOMAIN old : new[k].id = old[k].id
    BY <2>5, <2>6
  <2>8. IdsDiffer(new)
    BY <1>4, <2>6, <2>7 DEF IdsDiffer
  <2>9. \A k \in DOMAIN new : new[k].kind = "image" /\ new[k].folder = "assets" =>
          <<"image", new[k].name>> \in DOMAIN files
    BY <1>4, <2>5, <2>6
  <2>10. QED
    BY <2>3, <2>6, <2>8, <2>9 DEF Sound
<1>8. ASSUME NEW p \in DOMAIN files \ {Package}, NEW c, files' = [files EXCEPT ![p] = c]
      PROVE  Sound(files')
  <2>1. DOMAIN files' = DOMAIN files /\ files'[Package] = files[Package]
    BY <1>2, <1>8 DEF Sound
  <2>2. QED
    BY <1>2, <2>1 DEF Sound
<1>9. QED
  BY <1>1, <1>3, <1>6, <1>7, <1>8 DEF Edit

LEMMA CreateJobKeeps ==
  ASSUME NEW j \in Jobs, NEW s \in Selections, IInv, CreateJob(j, s)
  PROVE  IInv'
<1>1. PICK outcome : outcome = Outcome(uploaded, s)
  OBVIOUS
<1>2. PICK changes : changes = IF outcome = "ready" THEN Convert(uploaded, s) ELSE << >>
  OBVIOUS
<1>3. PICK job : job = [status |-> outcome, selection |-> s, changes |-> changes,
                        source |-> IF outcome = "ready" THEN uploaded ELSE << >>,
                        before |-> [p \in DOMAIN changes |-> Content(uploaded, p)]]
  OBVIOUS
<1>4. /\ Valid(s) /\ Fits(uploaded, s)
      /\ jobs' = [jobs EXCEPT ![j] = job]
      /\ UNCHANGED <<files, uploaded, edits, form>>
  BY <1>1, <1>2, <1>3 DEF CreateJob
<1>5. outcome \in {"ready", "conversion_failed", "raised"}
  BY <1>1 DEF Outcome
<1>6. JobOfConversion(job, form)
  <2>1. /\ DOMAIN job = {"status", "selection", "source", "changes", "before"}
        /\ job.status = outcome /\ job.selection = s
        /\ outcome = "ready" => job.source = uploaded
        /\ job.changes = changes /\ job.before = [p \in DOMAIN changes |-> Content(uploaded, p)]
    BY <1>3
  <2>2. CASE outcome = "ready"
    <3>1. Sound(uploaded)
      BY DEF IInv
    <3>2. QED
      BY <1>2, <1>4, <2>1, <2>2, <3>1 DEF JobOfConversion, Converted
  <2>3. CASE outcome = "conversion_failed"
    BY <1>4, <2>1, <2>3 DEF JobOfConversion
  <2>4. CASE outcome = "raised"
    BY <1>1, <1>4, <2>1, <2>4, RaisedConversions DEF JobOfConversion
  <2>5. QED
    BY <1>5, <2>2, <2>3, <2>4
<1>7. DOMAIN jobs' = Jobs /\ jobs'[j] = job /\ \A k \in Jobs \ {j} : jobs'[k] = jobs[k]
  BY <1>4 DEF IInv
<1>8. \A k \in Jobs : jobs'[k] # None => JobOfConversion(jobs'[k], form')
  BY <1>4, <1>6, <1>7 DEF IInv
<1>9. Sound(files)' /\ Sound(uploaded)' /\ (edits \in 0..MaxEdits)'
  BY <1>4 DEF IInv, Sound
<1>10. QED
  BY <1>7, <1>8, <1>9 DEF IInv

\* What a step that applies a job does.
LEMMA ApplyFacts ==
  ASSUME NEW j \in Jobs, IInv, Apply(j)
  PROVE  /\ JobOfConversion(jobs[j], form) /\ Converted(jobs[j]) /\ jobs[j].changes = Convert(jobs[j].source, jobs[j].selection)
         /\ DOMAIN jobs' = Jobs /\ \A k \in Jobs \ {j} : jobs'[k] = jobs[k]
         /\ JobOfConversion(jobs'[j], form) /\ form' = form
         /\ UnchangedLocally(jobs[j]) => files' = Applied(files, jobs[j].changes)
         /\ jobs'[j].status = "applied" => UnchangedLocally(jobs[j])
         /\ ~ UnchangedLocally(jobs[j]) => files' = files
<1>1. PICK job : job = jobs[j]
  OBVIOUS
<1>2. PICK status : status = IF UnchangedLocally(job) THEN "applied" ELSE "apply_failed"
  OBVIOUS
<1>3. /\ jobs[j] # None /\ job.status = "ready"
      /\ files' = IF UnchangedLocally(job) THEN Applied(files, job.changes) ELSE files
      /\ jobs' = [jobs EXCEPT ![j].status = status] /\ form' = form
  BY <1>1, <1>2 DEF Apply
<1>4. /\ JobOfConversion(job, form) /\ Converted(job)
      /\ job.changes = Convert(job.source, job.selection)
  BY <1>1, <1>3 DEF IInv, JobOfConversion, Converted
<1>5. PICK after : after = [job EXCEPT !.status = status]
  OBVIOUS
<1>6. /\ DOMAIN after = DOMAIN job /\ after.status = status
      /\ after.selection = job.selection /\ after.source = job.source
      /\ after.changes = job.changes /\ after.before = job.before
  BY <1>4, <1>5 DEF JobOfConversion
<1>7. JobOfConversion(after, form)
  BY <1>2, <1>4, <1>6 DEF JobOfConversion, Converted
<1>8. DOMAIN jobs' = Jobs /\ jobs'[j] = after /\ \A k \in Jobs \ {j} : jobs'[k] = jobs[k]
  BY <1>1, <1>3, <1>5 DEF IInv
<1>9. status = "applied" => UnchangedLocally(job)
  BY <1>2
<1>10. QED
  BY <1>1, <1>3, <1>4, <1>6, <1>7, <1>8, <1>9

\* A job that changes the manifest was made from the manifest that is there.
LEMMA UnchangedManifest ==
  ASSUME IInv, NEW job, JobOfConversion(job, form), Converted(job), UnchangedLocally(job),
         Package \in DOMAIN job.changes
  PROVE  files[Package] = job.source[Package]
<1>1. Content(files, Package) = job.before[Package]
  BY DEF UnchangedLocally
<1>2. job.before[Package] = Content(job.source, Package)
  BY DEF JobOfConversion, Converted
<1>3. Package \in DOMAIN files /\ Package \in DOMAIN job.source
  BY DEF IInv, JobOfConversion, Converted, Sound
<1>4. QED
  BY <1>1, <1>2, <1>3 DEF Content

LEMMA ApplyKeeps ==
  ASSUME NEW j \in Jobs, IInv, Apply(j)
  PROVE  IInv'
<1>1. PICK job : job = jobs[j]
  OBVIOUS
<1>2. /\ JobOfConversion(job, form) /\ Converted(job)
      /\ job.changes = Convert(job.source, job.selection)
      /\ DOMAIN jobs' = Jobs /\ \A k \in Jobs \ {j} : jobs'[k] = jobs[k]
      /\ JobOfConversion(jobs'[j], form) /\ form' = form
      /\ UnchangedLocally(job) => files' = Applied(files, job.changes)
      /\ ~ UnchangedLocally(job) => files' = files
  BY <1>1, ApplyFacts
<1>3. Sound(files')
  <2>1. CASE UnchangedLocally(job)
    <3>1. Package \in DOMAIN job.changes => files[Package] = job.source[Package]
      BY <1>2, <2>1, UnchangedManifest
    <3>2. /\ Sound(files) /\ Sound(job.source) /\ job.selection \in Selections
          /\ Valid(job.selection) /\ Fits(job.source, job.selection)
      BY <1>2 DEF IInv, JobOfConversion, Converted
    <3>3. QED
      BY <1>2, <2>1, <3>1, <3>2, ApplyKeepsSound
  <2>2. CASE ~ UnchangedLocally(job)
    BY <1>2, <2>2 DEF IInv
  <2>3. QED
    BY <2>1, <2>2
<1>4. \A k \in Jobs : jobs'[k] # None => JobOfConversion(jobs'[k], form')
  BY <1>2 DEF IInv
<1>5. UNCHANGED <<uploaded, edits>>
  BY DEF Apply
<1>6. Sound(uploaded)' /\ (edits \in 0..MaxEdits)'
  BY <1>5 DEF IInv, Sound
<1>7. QED
  BY <1>2, <1>3, <1>4, <1>6 DEF IInv, Sound

LEMMA NextKeeps == IInv /\ [Next]_vars => IInv'
<1>1. SUFFICES ASSUME IInv, [Next]_vars PROVE IInv'
  OBVIOUS
<1>2. CASE Upload
  <2>1. UNCHANGED <<files, jobs, edits, form>> /\ uploaded' = files
    BY <1>2 DEF Upload
  <2>2. QED
    BY <1>1, <2>1 DEF IInv, Sound
<1>3. CASE Edit
  <2>1. Sound(files')
    BY <1>1, <1>3, EditKeepsSound
  <2>2. UNCHANGED <<uploaded, jobs, form>> /\ edits < MaxEdits /\ edits' = edits + 1
    BY <1>3 DEF Edit
  <2>3. edits' \in 0..MaxEdits
    BY <1>1, <2>2, BoundsAreNat DEF IInv
  <2>4. QED
    BY <1>1, <2>1, <2>2, <2>3 DEF IInv, Sound
<1>4. ASSUME NEW j \in Jobs, Apply(j) PROVE IInv'
  BY <1>1, <1>4, ApplyKeeps
<1>5. ASSUME NEW j \in Jobs, NEW s \in Selections, CreateJob(j, s) PROVE IInv'
  BY <1>1, <1>5, CreateJobKeeps
<1>6. CASE UNCHANGED vars
  BY <1>1, <1>6 DEF vars, IInv, Sound
<1>7. QED
  BY <1>1, <1>2, <1>3, <1>4, <1>5, <1>6 DEF Next
-----------------------------------------------------------------------------
(* Theorems.                                                               *)

\* The bundles are made of sound uploads and keep the package sound: the
\* invariant the others follow from.
THEOREM ConversionInvariance == Spec => []IInv
<1>1. Init => IInv
  BY InitHolds
<1>2. IInv /\ [Next]_vars => IInv'
  BY NextKeeps
<1>3. QED
  BY <1>1, <1>2, PTL DEF Spec

\* Two resources of the designer's package never have one id.
THEOREM IdsAreUnique == Spec => []ResourceIdsAreUnique
<1>1. IInv => ResourceIdsAreUnique
  BY DEF IInv, Sound, IdsDiffer, ResourceIdsAreUnique
<1>2. QED
  BY <1>1, ConversionInvariance, PTL

\* A conversion of an accepted selection ends in an error nobody handles only
\* for a resource of the project without id or name, or for a child at no
\* finite distance from its panel: never for a reference or a decision that is
\* missing, at any depth.
THEOREM ConversionsEnd == Spec => []LookupsSucceed
<1>1. ASSUME IInv, NEW j \in Jobs, jobs[j] # None, jobs[j].status = "raised"
      PROVE  \/ form = "unindexable"
             \/ \E i \in Panels(jobs[j].selection) :
                  \E c \in Range(jobs[j].selection.roots[i].children) : c.far
  <2>1. JobOfConversion(jobs[j], form)
    BY <1>1 DEF IInv
  <2>2. form = "unindexable" \/ FarChild(jobs[j].selection)
    BY <1>1, <2>1 DEF JobOfConversion, Converted
  <2>3. QED
    BY <2>2 DEF FarChild
<1>2. IInv => LookupsSucceed
  BY <1>1 DEF LookupsSucceed
<1>3. QED
  BY <1>2, ConversionInvariance, PTL

\* Over the upload it was made from, a bundle's panels have all their images,
\* registered and with the content of the selection.
THEOREM BundlesHaveTheirImages == Spec => []BundlesAreSelfContained
<1>1. ASSUME IInv, NEW j \in Jobs, jobs[j] # None,
             jobs[j].status \notin {"raised", "conversion_failed"},
             NEW i \in Panels(jobs[j].selection), NEW key \in Assets(jobs[j].selection),
             key \in References(jobs[j].selection.roots[i]),
             \A k \in Panels(jobs[j].selection) :
               jobs[j].selection.roots[k].name = jobs[j].selection.roots[i].name => k <= i
      PROVE  LET project == Applied(jobs[j].source, jobs[j].changes)
             IN  \E image \in project[<<"panel", jobs[j].selection.roots[i].name>>].images :
                   /\ Registered(project, image)
                   /\ project[<<"image", image.name>>] = Asset(jobs[j].selection, key)[3]
  <2>1. PICK s, source, changes :
          s = jobs[j].selection /\ source = jobs[j].source /\ changes = jobs[j].changes
    OBVIOUS
  <2>2. /\ s \in Selections /\ Valid(s) /\ Sound(source) /\ Fits(source, s)
        /\ changes = Convert(source, s)
    <3>1. JobOfConversion(jobs[j], form)
      BY <1>1 DEF IInv
    <3>2. QED
      BY <1>1, <2>1, <3>1 DEF JobOfConversion
  <2>3. PICK package : package = PackageResources(source, s)
    OBVIOUS
  <2>4. PICK project : project = Over(changes, source)
    OBVIOUS
  <2>5. PICK asset : asset = Asset(s, key)
    OBVIOUS
  <2>6. PICK image : image = package.names[asset]
    OBVIOUS
  <2>7. asset \in AssetsOf(s)
    BY <1>1, <2>1, <2>5 DEF AssetsOf
  <2>8. /\ \E r \in Range(package.resources) :
             r.id = image.id /\ r.name = image.name /\ r.folder = "assets"
        /\ project[<<"image", image.name>>] = asset[3]
    BY <2>2, <2>3, <2>4, <2>6, <2>7, HeldImages DEF Applied
  <2>9. PICK path : path = <<"panel", s.roots[i].name>>
    OBVIOUS
  <2>10. /\ Package \in DOMAIN changes /\ changes[Package] = package.resources
         /\ path \in DOMAIN changes /\ changes[path] = Panel(s, i, package.names)
    <3>1. Done(source, package, AssetsOf(s))
      BY <2>2, <2>3, PackageFacts
    <3>2. PanelOf(s, s.roots[i].name) = i
      BY <1>1, <2>1, <2>2, PanelOfFacts
    <3>3. Assets(s) # {} /\ i \in Panels(s)
      BY <1>1, <2>1
    <3>4. QED
      BY <2>2, <2>3, <2>9, <3>1, <3>2, <3>3, ConvertFacts DEF Done
  <2>11. project[Package] = package.resources /\ project[path] = Panel(s, i, package.names)
    BY <2>4, <2>10 DEF Over
  <2>12. image \in project[path].images
    <3>1. image \in {package.names[Asset(s, k)] : k \in References(s.roots[i])}
      BY <1>1, <2>1, <2>5, <2>6
    <3>2. QED
      BY <2>11, <3>1 DEF Panel
  <2>13. Registered(project, image)
    BY <2>8, <2>11 DEF Registered
  <2>14. QED
    BY <2>1, <2>4, <2>5, <2>8, <2>9, <2>12, <2>13 DEF Applied
<1>2. IInv => BundlesAreSelfContained
  BY <1>1 DEF BundlesAreSelfContained
<1>3. QED
  BY <1>2, ConversionInvariance, PTL

\* Only applying a job changes it.
LEMMA JobsChangeByApply ==
  ASSUME IInv, [Next]_vars, NEW j \in Jobs, jobs[j] # None, jobs'[j] # jobs[j]
  PROVE  Apply(j)
<1>1. CASE Upload
  BY <1>1 DEF Upload
<1>2. CASE Edit
  BY <1>2 DEF Edit
<1>3. ASSUME NEW k \in Jobs, Apply(k) PROVE Apply(j)
  <2>1. k # j => jobs'[j] = jobs[j]
    BY <1>3, ApplyFacts
  <2>2. QED
    BY <1>3, <2>1
<1>4. ASSUME NEW k \in Jobs, NEW s \in Selections, CreateJob(k, s) PROVE FALSE
  <2>1. jobs[k] = None
    BY <1>4 DEF CreateJob
  <2>2. PICK job : jobs' = [jobs EXCEPT ![k] = job]
    BY <1>4 DEF CreateJob
  <2>3. k # j
    BY <2>1
  <2>4. QED
    BY <2>2, <2>3 DEF IInv
<1>5. CASE UNCHANGED vars
  BY <1>5 DEF vars
<1>6. QED
  BY <1>1, <1>2, <1>3, <1>4, <1>5 DEF Next

\* What the theorems about a step need of the job it applies.
LEMMA AppliedBundle ==
  ASSUME NEW j \in Jobs, IInv, Apply(j), UnchangedLocally(jobs[j])
  PROVE  \E s, source :
           /\ s \in Selections /\ Valid(s) /\ Sound(source) /\ Fits(source, s)
           /\ jobs[j].changes = Convert(source, s)
           /\ files' = Over(jobs[j].changes, files)
           /\ Package \in DOMAIN jobs[j].changes => files[Package] = source[Package]
<1>1. PICK job : job = jobs[j]
  OBVIOUS
<1>2. /\ JobOfConversion(job, form) /\ Converted(job)
      /\ job.changes = Convert(job.source, job.selection)
      /\ files' = Over(job.changes, files)
  BY <1>1, ApplyFacts DEF Applied
<1>3. Package \in DOMAIN job.changes => files[Package] = job.source[Package]
  BY <1>1, <1>2, UnchangedManifest
<1>4. /\ job.selection \in Selections /\ Valid(job.selection)
      /\ Sound(job.source) /\ Fits(job.source, job.selection)
  BY <1>2 DEF JobOfConversion, Converted
<1>5. QED
  BY <1>1, <1>2, <1>3, <1>4

\* Whatever else was applied or edited, the panels a job leaves refer only to
\* images the package registers.
THEOREM AppliedPanelsAreComplete == Spec => AppliedPanelsResolve
<1>1. ASSUME IInv, [Next]_vars, NEW j \in Jobs, jobs[j] # None,
             jobs'[j].status = "applied", jobs[j].status # "applied",
             NEW p \in DOMAIN jobs[j].changes \ {Package}, p[1] = "panel",
             NEW image \in files'[p].images
      PROVE  Registered(files', image)
  <2>1. Apply(j)
    BY <1>1, JobsChangeByApply
  <2>2. UnchangedLocally(jobs[j])
    BY <1>1, <2>1, ApplyFacts
  <2>3. PICK changes : changes = jobs[j].changes
    OBVIOUS
  <2>4. PICK s, source :
          /\ s \in Selections /\ Valid(s) /\ Sound(source) /\ Fits(source, s)
          /\ changes = Convert(source, s)
          /\ files' = Over(changes, files)
    BY <1>1, <2>1, <2>2, <2>3, AppliedBundle
  <2>5. PICK package : package = PackageResources(source, s)
    OBVIOUS
  <2>6. Done(source, package, AssetsOf(s))
    BY <2>4, <2>5, PackageFacts
  <2>7. PICK i \in Panels(s) : p = <<"panel", s.roots[i].name>>
    <3>1. \/ p = Package
          \/ p \in DOMAIN package.written
          \/ \E i \in Panels(s) : p = <<"panel", s.roots[i].name>>
      BY <1>1, <2>3, <2>4, <2>5, <2>6, ConvertFacts DEF Done
    <3>2. p \in DOMAIN package.written => p[1] = "image"
      BY <2>6 DEF Done, Written
    <3>3. QED
      BY <1>1, <3>1, <3>2
  <2>8. PICK k : k = PanelOf(s, s.roots[i].name)
    OBVIOUS
  <2>9. k \in Panels(s)
    BY <2>4, <2>7, <2>8, PanelOfFacts
  <2>10. p \in DOMAIN changes /\ changes[p] = Panel(s, k, package.names)
    BY <2>4, <2>5, <2>6, <2>7, <2>8, ConvertFacts DEF Done
  <2>11. image \in Panel(s, k, package.names).images
    BY <1>1, <2>4, <2>10 DEF Over
  <2>12. PICK key \in References(s.roots[k]) : image = package.names[Asset(s, key)]
    BY <2>11 DEF Panel
  <2>13. key \in Assets(s)
    BY <2>9, <2>12 DEF Assets
  <2>14. Asset(s, key) \in AssetsOf(s)
    BY <2>13 DEF AssetsOf
  <2>15. \E r \in Range(package.resources) : r.id = image.id /\ r.name = image.name /\ r.folder = "assets"
    BY <2>4, <2>5, <2>12, <2>14, HeldImages
  <2>16. Package \in DOMAIN changes /\ changes[Package] = package.resources
    BY <2>4, <2>5, <2>6, <2>13, ConvertFacts DEF Done
  <2>17. files'[Package] = package.resources
    BY <2>4, <2>16 DEF Over
  <2>18. QED
    BY <2>15, <2>17 DEF Registered
<1>2. IInv /\ [Next]_vars =>
        [\A j \in Jobs : jobs[j] # None /\ jobs'[j].status = "applied" /\ jobs[j].status # "applied" =>
           \A p \in DOMAIN jobs[j].changes \ {Package} : p[1] = "panel" =>
             \A image \in files'[p].images : Registered(files', image)]_vars
  BY <1>1
<1>3. QED
  BY <1>2, ConversionInvariance, PTL DEF Spec, AppliedPanelsResolve

\* No job overwrites an image the package registers, by this conversion or by
\* another.
THEOREM ImagesAreKept == Spec => RegisteredImagesAreKept
<1>1. ASSUME IInv, [Next]_vars, NEW j \in Jobs, jobs[j] # None, jobs'[j] # jobs[j],
             NEW r \in Range(files[Package]), r.kind = "image", r.folder = "assets"
      PROVE  files'[<<"image", r.name>>] = files[<<"image", r.name>>]
  <2>1. Apply(j)
    BY <1>1, JobsChangeByApply
  <2>2. CASE ~ UnchangedLocally(jobs[j])
    BY <1>1, <2>1, <2>2, ApplyFacts
  <2>3. CASE UnchangedLocally(jobs[j])
    <3>1. PICK path : path = <<"image", r.name>>
      OBVIOUS
    <3>2. PICK i \in DOMAIN files[Package] : r = files[Package][i]
      BY <1>1 DEF Range
    <3>3. path \in DOMAIN files
      BY <1>1, <3>1, <3>2 DEF IInv, Sound
    <3>4. PICK changes : changes = jobs[j].changes
      OBVIOUS
    <3>5. PICK s, source :
            /\ s \in Selections /\ Valid(s) /\ Sound(source) /\ Fits(source, s)
            /\ changes = Convert(source, s)
            /\ files' = Over(changes, files)
            /\ Package \in DOMAIN changes => files[Package] = source[Package]
      BY <1>1, <2>1, <2>3, <3>4, AppliedBundle
    <3>6. PICK package : package = PackageResources(source, s)
      OBVIOUS
    <3>7. Done(source, package, AssetsOf(s))
      BY <3>5, <3>6, PackageFacts
    <3>8. path \notin DOMAIN changes
      <4>1. SUFFICES ASSUME path \in DOMAIN changes PROVE FALSE
        OBVIOUS
      <4>2. /\ path \in DOMAIN package.written /\ Assets(s) # {}
            /\ Assets(s) # {} => Package \in DOMAIN changes
        BY <3>1, <3>5, <3>6, <3>7, <4>1, ConvertFacts DEF Done
      <4>3. PICK a \in AssetsOf(s), n \in 0..MaxPackage :
              /\ path = <<"image", <<a, n>>>>
              /\ \A m \in DOMAIN source[Package] :
                   ~ (source[Package][m].kind = "image" /\ source[Package][m].name = <<a, n>>)
        <5>1. Written(source, package, AssetsOf(s), path)
          BY <3>7, <4>2 DEF Done
        <5>2. QED
          BY <5>1 DEF Written
      <4>4. r.name = <<a, n>>
        BY <3>1, <4>3
      <4>5. files[Package] = source[Package]
        BY <3>5, <4>2
      <4>6. QED
        BY <1>1, <3>2, <4>3, <4>4, <4>5
    <3>9. QED
      BY <3>1, <3>3, <3>5, <3>8 DEF Over
  <2>4. QED
    BY <2>2, <2>3
<1>2. IInv /\ [Next]_vars =>
        [\A j \in Jobs : jobs[j] # None /\ jobs'[j] # jobs[j] =>
           \A r \in Range(files[Package]) : r.kind = "image" /\ r.folder = "assets" =>
             files'[<<"image", r.name>>] = files[<<"image", r.name>>]]_vars
  BY <1>1
<1>3. QED
  BY <1>2, ConversionInvariance, PTL DEF Spec, RegisteredImagesAreKept
-----------------------------------------------------------------------------
(* Converting again.                                                       *)

\* An asset that was dealt with has a name at which the search for it will
\* stop, before which it will not, and which holds it.
Settled(project, done, a) ==
  \E m \in 0..MaxPackage :
    /\ Existing(done.resources, <<a, m>>) # 0
    /\ done.resources[Existing(done.resources, <<a, m>>)].folder = "assets"
    /\ done.names[a] = [id |-> done.resources[Existing(done.resources, <<a, m>>)].id, name |-> <<a, m>>]
    /\ IF <<"image", <<a, m>>>> \in DOMAIN done.written
       THEN done.written[<<"image", <<a, m>>>>] = a[3]
       ELSE <<"image", <<a, m>>>> \in DOMAIN project /\ project[<<"image", <<a, m>>>>] = a[3]
    /\ \A k \in 0..(m - 1) :
         /\ ~ Usable(project, done.resources, a, k)
         /\ <<"image", <<a, k>>>> \notin DOMAIN done.written

\* An asset that was not dealt with has no file yet.
LEMMA NotYetWritten ==
  ASSUME NEW project, NEW done, NEW assets, NEW asset, asset \notin assets, Done(project, done, assets)
  PROVE  \A n : <<"image", <<asset, n>>>> \notin DOMAIN done.written
<1>1. SUFFICES ASSUME NEW n, <<"image", <<asset, n>>>> \in DOMAIN done.written PROVE FALSE
  OBVIOUS
<1>2. PICK a \in assets, m \in 0..MaxPackage : <<"image", <<asset, n>>>> = <<"image", <<a, m>>>>
  BY <1>1 DEF Done, Written
<1>3. asset = a
  BY <1>2
<1>4. QED
  BY <1>3

LEMMA ReuseSettles ==
  ASSUME NEW project, NEW done, NEW assets, NEW asset, NEW n \in 0..MaxPackage, NEW next,
         asset \notin assets, Done(project, done, assets),
         \A a \in assets : Settled(project, done, a),
         \A k \in 0..(n - 1) : ~ Usable(project, done.resources, asset, k),
         Reuses(project, done, asset, n, next)
  PROVE  \A a \in assets \cup {asset} : Settled(project, next, a)
<1>1. PICK i : i = Existing(done.resources, <<asset, n>>)
  OBVIOUS
<1>2. PICK image : image = [id |-> done.resources[i].id, name |-> <<asset, n>>]
  OBVIOUS
<1>3. /\ i # 0 /\ MatchesRegisteredAsset(project, done.resources[i], asset[3])
      /\ next.resources = done.resources /\ next.written = done.written
      /\ next.names = Over([a \in {asset} |-> image], done.names)
  BY <1>1, <1>2 DEF Reuses
<1>4. next.names[asset] = image /\ \A a \in assets : next.names[a] = done.names[a]
  <2>1. DOMAIN done.names = assets
    BY DEF Done
  <2>2. QED
    BY <1>3, <2>1 DEF Over
<1>5. Settled(project, next, asset)
  <2>1. \A k : <<"image", <<asset, k>>>> \notin DOMAIN done.written
    BY NotYetWritten
  <2>2. done.resources[i].name = <<asset, n>>
    BY <1>1, <1>3, ExistingFacts DEF Done, Extended
  <2>3. /\ done.resources[i].folder = "assets"
        /\ <<"image", <<asset, n>>>> \in DOMAIN project
        /\ project[<<"image", <<asset, n>>>>] = asset[3]
    BY <1>3, <2>2 DEF MatchesRegisteredAsset
  <2>4. QED
    BY <1>1, <1>2, <1>3, <1>4, <2>1, <2>3 DEF Settled
<1>6. \A a \in assets : Settled(project, next, a)
  <2>1. TAKE a \in assets
  <2>2. Settled(project, done, a) /\ next.names[a] = done.names[a]
    BY <1>4
  <2>3. QED
    BY <1>3, <2>2 DEF Settled
<1>7. QED
  BY <1>5, <1>6

LEMMA AddSettles ==
  ASSUME NEW project, NEW done, NEW assets, NEW asset, NEW n \in 0..MaxPackage, NEW item, NEW next,
         asset \notin assets, Done(project, done, assets),
         \A a \in assets : Settled(project, done, a),
         \A k \in 0..(n - 1) : ~ Usable(project, done.resources, asset, k),
         Adds(done, asset, n, item, next)
  PROVE  \A a \in assets \cup {asset} : Settled(project, next, a)
<1>1. PICK image : image = [id |-> item.id, name |-> <<asset, n>>]
  OBVIOUS
<1>2. PICK path : path = <<"image", <<asset, n>>>>
  OBVIOUS
<1>3. /\ item \in Resource /\ item.kind = "image" /\ item.name = <<asset, n>> /\ item.folder = "assets"
      /\ next.resources = Append(done.resources, item)
      /\ next.names = Over([a \in {asset} |-> image], done.names)
      /\ next.written = Over([p \in {path} |-> asset[3]], done.written)
  BY <1>1, <1>2 DEF Adds
<1>4. PICK len \in Nat : /\ len = Len(done.resources) /\ DOMAIN done.resources = 1..len
                         /\ done.resources \in Seq(Resource)
  BY ResourcesFacts DEF Done, Extended
<1>5. /\ \A i \in 1..len : next.resources[i] = done.resources[i]
      /\ next.resources[len + 1] = item
  BY <1>3, <1>4, AppendFacts
<1>6. next.names[asset] = image /\ \A a \in assets : next.names[a] = done.names[a]
  <2>1. DOMAIN done.names = assets
    BY DEF Done
  <2>2. QED
    BY <1>3, <2>1 DEF Over
<1>7. /\ DOMAIN next.written = DOMAIN done.written \cup {path}
      /\ next.written[path] = asset[3]
      /\ \A p \in DOMAIN done.written : p # path => next.written[p] = done.written[p]
  BY <1>3 DEF Over
<1>8. ASSUME NEW name
      PROVE  Existing(next.resources, name) =
               IF item.name = name THEN Len(done.resources) + 1 ELSE Existing(done.resources, name)
  <2>1. Existing(Append(done.resources, item), name) =
          IF item.name = name THEN Len(done.resources) + 1 ELSE Existing(done.resources, name)
    BY <1>3, <1>4, ExistingAfterAppend
  <2>2. QED
    BY <1>3, <2>1
<1>9. Existing(next.resources, <<asset, n>>) = len + 1
  BY <1>3, <1>4, <1>8
<1>10. \A name : name # <<asset, n>> /\ Existing(done.resources, name) # 0 =>
         /\ Existing(next.resources, name) = Existing(done.resources, name)
         /\ next.resources[Existing(next.resources, name)] = done.resources[Existing(done.resources, name)]
  <2>1. SUFFICES ASSUME NEW name, name # <<asset, n>>, Existing(done.resources, name) # 0
                 PROVE  /\ Existing(next.resources, name) = Existing(done.resources, name)
                        /\ next.resources[Existing(next.resources, name)] =
                             done.resources[Existing(done.resources, name)]
    OBVIOUS
  <2>2. Existing(next.resources, name) = Existing(done.resources, name)
    BY <1>3, <1>8, <2>1
  <2>3. Existing(done.resources, name) \in DOMAIN done.resources
    BY <1>4, <2>1, ExistingFacts
  <2>4. QED
    BY <1>4, <1>5, <2>2, <2>3
<1>11. \A a, k : <<a, k>> # <<asset, n>> /\ ~ Usable(project, done.resources, a, k) =>
         ~ Usable(project, next.resources, a, k)
  BY <1>10 DEF Usable
<1>12. Settled(project, next, asset)
  <2>1. \A k : <<"image", <<asset, k>>>> \notin DOMAIN done.written
    BY NotYetWritten
  <2>2. \A k \in 0..(n - 1) : <<asset, k>> # <<asset, n>> /\ <<"image", <<asset, k>>>> # path
    BY <1>2, BoundsAreNat
  <2>3. \A k \in 0..(n - 1) : ~ Usable(project, next.resources, asset, k)
    BY <1>11, <2>2
  <2>4. \A k \in 0..(n - 1) : <<"image", <<asset, k>>>> \notin DOMAIN next.written
    BY <1>7, <2>1, <2>2
  <2>5. Existing(next.resources, <<asset, n>>) # 0 /\ next.resources[Existing(next.resources, <<asset, n>>)] = item
    BY <1>5, <1>9
  <2>6. QED
    BY <1>1, <1>2, <1>3, <1>6, <1>7, <2>3, <2>4, <2>5 DEF Settled
<1>13. \A a \in assets : Settled(project, next, a)
  <2>1. TAKE a \in assets
  <2>2. a # asset /\ next.names[a] = done.names[a]
    BY <1>6
  <2>3. \A k : <<a, k>> # <<asset, n>> /\ <<"image", <<a, k>>>> # path
    BY <1>2, <2>2
  <2>4. PICK m \in 0..MaxPackage :
          /\ Existing(done.resources, <<a, m>>) # 0
          /\ done.resources[Existing(done.resources, <<a, m>>)].folder = "assets"
          /\ done.names[a] = [id |-> done.resources[Existing(done.resources, <<a, m>>)].id, name |-> <<a, m>>]
          /\ IF <<"image", <<a, m>>>> \in DOMAIN done.written
             THEN done.written[<<"image", <<a, m>>>>] = a[3]
             ELSE <<"image", <<a, m>>>> \in DOMAIN project /\ project[<<"image", <<a, m>>>>] = a[3]
          /\ \A k \in 0..(m - 1) :
               /\ ~ Usable(project, done.resources, a, k)
               /\ <<"image", <<a, k>>>> \notin DOMAIN done.written
    BY DEF Settled
  <2>5. /\ Existing(next.resources, <<a, m>>) # 0
        /\ next.resources[Existing(next.resources, <<a, m>>)] =
             done.resources[Existing(done.resources, <<a, m>>)]
    BY <1>10, <2>3, <2>4
  <2>6. IF <<"image", <<a, m>>>> \in DOMAIN next.written
        THEN next.written[<<"image", <<a, m>>>>] = a[3]
        ELSE <<"image", <<a, m>>>> \in DOMAIN project /\ project[<<"image", <<a, m>>>>] = a[3]
    BY <1>7, <2>3, <2>4
  <2>7. \A k \in 0..(m - 1) :
          /\ ~ Usable(project, next.resources, a, k)
          /\ <<"image", <<a, k>>>> \notin DOMAIN next.written
    BY <1>7, <1>11, <2>3, <2>4
  <2>8. QED
    BY <2>2, <2>4, <2>5, <2>6, <2>7 DEF Settled
<1>14. QED
  BY <1>12, <1>13

\* An asset has the place of its resource, so no two resources have one.
LEMMA AssetsDiffer ==
  ASSUME NEW s \in Selections, Valid(s), NEW n \in DOMAIN s.resources
  PROVE  Asset(s, s.resources[n].key) \notin RegisteredUpTo(s, n - 1)
<1>1. PICK len \in Nat : DOMAIN s.resources = 1..len
  BY SelectionFacts
<1>2. ASSUME NEW i \in DOMAIN s.resources
      PROVE  Asset(s, s.resources[i].key) = <<s.fingerprint, i, s.resources[i].content>>
  <2>1. PICK place : place = CHOOSE m \in DOMAIN s.resources : s.resources[m].key = s.resources[i].key
    OBVIOUS
  <2>2. place \in DOMAIN s.resources /\ s.resources[place].key = s.resources[i].key
    BY <1>2, <2>1
  <2>3. place = i
    BY <1>2, <2>2 DEF Valid
  <2>4. QED
    BY <2>1, <2>3, Zenon DEF Asset
<1>3. SUFFICES ASSUME NEW i \in 1..(n - 1), Asset(s, s.resources[i].key) = Asset(s, s.resources[n].key)
               PROVE  FALSE
  BY DEF RegisteredUpTo
<1>4. i \in DOMAIN s.resources /\ i # n
  BY <1>1
<1>5. QED
  BY <1>2, <1>3, <1>4

LEMMA LoopSettles ==
  ASSUME NEW s \in Selections, NEW project, Valid(s), Sound(project), Fits(project, s)
  PROVE  \A a \in AssetsOf(s) : Settled(project, PackageResources(project, s), a)
<1>1. PICK len \in Nat : len = Len(s.resources) /\ DOMAIN s.resources = 1..len
  BY SelectionFacts
<1>2. PICK D : D = Registrations(project, s)
  OBVIOUS
<1>3. \A n \in 0..len : D[n] = LoopStep(project, s, D, n)
  BY <1>1, <1>2, RegistrationsFacts
<1>4. \A n \in 0..len : /\ Done(project, D[n], RegisteredUpTo(s, n))
                       /\ Len(D[n].resources) <= Len(project[Package]) + n
  BY <1>1, <1>2, LoopFacts
<1>5. PICK S : S = {n \in 0..len : \A a \in RegisteredUpTo(s, n) : Settled(project, D[n], a)}
  OBVIOUS
<1>6. 0 \in S
  BY <1>5 DEF RegisteredUpTo
<1>7. ASSUME NEW n \in 1..len, n - 1 \in S
      PROVE  n \in S
  <2>1. PICK done : done = D[n - 1]
    OBVIOUS
  <2>2. PICK key : key = s.resources[n].key
    OBVIOUS
  <2>3. PICK before : before = RegisteredUpTo(s, n - 1)
    OBVIOUS
  <2>4. \A a \in before : Settled(project, done, a)
    BY <1>5, <1>7, <2>1, <2>3
  <2>5. /\ Done(project, done, before) /\ done.resources \in Seq(Resource)
        /\ Len(done.resources) <= Len(project[Package]) + (n - 1)
    <3>1. n - 1 \in 0..len
      OBVIOUS
    <3>2. QED
      BY <1>4, <2>1, <2>3, <3>1 DEF Done, Extended
  <2>6. CASE key \in Assets(s)
    <3>1. PICK asset : asset = Asset(s, key)
      OBVIOUS
    <3>2. D[n] = Register(project, done, asset)
      BY <1>3, <2>1, <2>2, <2>6, <3>1 DEF LoopStep
    <3>3. RegisteredUpTo(s, n) = before \cup {asset}
      BY <2>2, <2>3, <2>6, <3>1 DEF RegisteredUpTo
    <3>4. asset \in AllAssets
      BY <1>1, <2>2, <3>1 DEF AllAssets, Keys
    <3>5. Len(done.resources) <= MaxPackage
      <4>1. Len(project[Package]) \in Nat /\ Len(done.resources) \in Nat
        BY <2>5, ResourcesFacts DEF Sound
      <4>2. Len(project[Package]) + len <= MaxPackage
        BY <1>1 DEF Fits
      <4>3. QED
        BY <2>5, <4>1, <4>2, BoundsAreNat
    <3>6. asset \notin before
      BY <1>1, <2>2, <2>3, <3>1, AssetsDiffer
    <3>7. PICK m \in 0..MaxPackage :
            /\ \A k \in 0..(m - 1) : ~ Usable(project, done.resources, asset, k)
            /\ \/ Reuses(project, done, asset, m, D[n])
               \/ \E item : Adds(done, asset, m, item, D[n])
      BY <2>5, <3>2, <3>4, <3>5, RegisterFacts
    <3>8. CASE Reuses(project, done, asset, m, D[n])
      <4>1. \A a \in before \cup {asset} : Settled(project, D[n], a)
        BY <2>4, <2>5, <3>6, <3>7, <3>8, ReuseSettles
      <4>2. QED
        BY <1>5, <3>3, <4>1
    <3>9. ASSUME NEW item, Adds(done, asset, m, item, D[n])
          PROVE  n \in S
      <4>1. \A a \in before \cup {asset} : Settled(project, D[n], a)
        BY <2>4, <2>5, <3>6, <3>7, <3>9, AddSettles
      <4>2. QED
        BY <1>5, <3>3, <4>1
    <3>10. QED
      BY <3>7, <3>8, <3>9
  <2>7. CASE key \notin Assets(s)
    <3>1. D[n] = done
      BY <1>3, <2>1, <2>2, <2>7 DEF LoopStep
    <3>2. RegisteredUpTo(s, n) = before
      BY <2>2, <2>3, <2>7 DEF RegisteredUpTo
    <3>3. QED
      BY <1>5, <2>4, <3>1, <3>2
  <2>8. QED
    BY <2>6, <2>7
<1>8. len \in S
  BY <1>6, <1>7, UpTo
<1>9. AssetsOf(s) \subseteq RegisteredUpTo(s, len)
  <2>1. Assets(s) \subseteq {s.resources[i].key : i \in 1..len}
    BY <1>1, AssetsAreDeclared DEF Keys
  <2>2. QED
    BY <2>1 DEF RegisteredUpTo, AssetsOf
<1>10. QED
  BY <1>1, <1>2, <1>5, <1>8, <1>9 DEF PackageResources

\* Where a package holds a selection's images already, the loop finds each
\* where it was put, and adds nothing.
LEMMA LoopFindsAll ==
  ASSUME NEW s \in Selections, NEW project, Valid(s), Sound(project), Fits(project, s),
         NEW package, package = PackageResources(project, s),
         NEW once, once = Over(Convert(project, s), project),
         NEW again, again = PackageResources(once, s)
  PROVE  /\ again.resources = once[Package] /\ DOMAIN again.written = {}
         /\ \A a \in AssetsOf(s) : again.names[a] = package.names[a]
<1>1. PICK len \in Nat : len = Len(s.resources) /\ DOMAIN s.resources = 1..len
  BY SelectionFacts
<1>2. PICK D : D = Registrations(once, s)
  OBVIOUS
<1>3. \A n \in 0..len : D[n] = LoopStep(once, s, D, n)
  BY <1>1, <1>2, RegistrationsFacts
<1>4. Done(project, package, AssetsOf(s)) /\ \A a \in AssetsOf(s) : Settled(project, package, a)
  BY PackageFacts, LoopSettles
<1>5. PICK changes : changes = Convert(project, s)
  OBVIOUS
<1>6. /\ Assets(s) # {} => once[Package] = package.resources
      /\ \A name : <<"image", name>> \in DOMAIN package.written =>
           /\ <<"image", name>> \in DOMAIN once
           /\ once[<<"image", name>>] = package.written[<<"image", name>>]
      /\ \A name : <<"image", name>> \notin DOMAIN package.written =>
           /\ <<"image", name>> \in DOMAIN once => <<"image", name>> \in DOMAIN project
           /\ <<"image", name>> \in DOMAIN project =>
                /\ <<"image", name>> \in DOMAIN once
                /\ once[<<"image", name>>] = project[<<"image", name>>]
  <2>1. /\ Assets(s) # {} => Package \in DOMAIN changes /\ changes[Package] = package.resources
        /\ \A name : <<"image", name>> \in DOMAIN changes <=> <<"image", name>> \in DOMAIN package.written
        /\ \A name : <<"image", name>> \in DOMAIN changes =>
             changes[<<"image", name>>] = package.written[<<"image", name>>]
    BY <1>4, <1>5, ConvertFacts DEF Done
  <2>2. /\ DOMAIN once = DOMAIN changes \cup DOMAIN project
        /\ \A p \in DOMAIN changes : once[p] = changes[p]
        /\ \A p \in DOMAIN project : p \notin DOMAIN changes => once[p] = project[p]
    BY <1>5 DEF Over
  <2>3. QED
    BY <2>1, <2>2
<1>7. ASSUME NEW a \in AssetsOf(s), NEW done, done.resources = package.resources
      PROVE  /\ Register(once, done, a).resources = done.resources
             /\ Register(once, done, a).written = done.written
             /\ Register(once, done, a).names = Over([b \in {a} |-> package.names[a]], done.names)
  <2>1. PICK m \in 0..MaxPackage :
          /\ Existing(package.resources, <<a, m>>) # 0
          /\ package.resources[Existing(package.resources, <<a, m>>)].folder = "assets"
          /\ package.names[a] =
               [id |-> package.resources[Existing(package.resources, <<a, m>>)].id, name |-> <<a, m>>]
          /\ IF <<"image", <<a, m>>>> \in DOMAIN package.written
             THEN package.written[<<"image", <<a, m>>>>] = a[3]
             ELSE <<"image", <<a, m>>>> \in DOMAIN project /\ project[<<"image", <<a, m>>>>] = a[3]
          /\ \A k \in 0..(m - 1) :
               /\ ~ Usable(project, package.resources, a, k)
               /\ <<"image", <<a, k>>>> \notin DOMAIN package.written
    BY <1>4 DEF Settled
  <2>2. package.resources \in Seq(Resource)
    BY <1>4 DEF Done, Extended
  <2>3. PICK i : i = Existing(package.resources, <<a, m>>)
    OBVIOUS
  <2>4. package.resources[i].name = <<a, m>>
    <3>1. PICK name : name = <<a, m>>
      OBVIOUS
    <3>2. /\ i = Existing(package.resources, name)
          /\ i # 0
      BY <2>1, <2>3, <3>1
    <3>3. package.resources[i].name = name
      BY <2>2, <3>2, ExistingFacts
    <3>4. QED
      BY <3>1, <3>3
  <2>5. /\ i # 0 /\ package.resources[i].name = <<a, m>>
        /\ package.resources[i].folder = "assets"
        /\ package.names[a] = [id |-> package.resources[i].id, name |-> <<a, m>>]
    BY <2>1, <2>3, <2>4
  <2>6. <<"image", <<a, m>>>> \in DOMAIN once /\ once[<<"image", <<a, m>>>>] = a[3]
    BY <1>6, <2>1
  <2>7. MatchesRegisteredAsset(once, package.resources[i], a[3])
    BY <2>5, <2>6 DEF MatchesRegisteredAsset
  <2>8. Usable(once, package.resources, a, m)
    BY <2>3, <2>7 DEF Usable
  <2>9. ASSUME NEW k \in 0..(m - 1) PROVE ~ Usable(once, package.resources, a, k)
    <3>1. PICK e : e = Existing(package.resources, <<a, k>>)
      OBVIOUS
    <3>2. e # 0 /\ ~ MatchesRegisteredAsset(project, package.resources[e], a[3])
      BY <2>1, <3>1 DEF Usable
    <3>3. package.resources[e].name = <<a, k>>
      BY <2>2, <3>1, <3>2, ExistingFacts
    <3>4. <<"image", <<a, k>>>> \notin DOMAIN package.written
      BY <2>1
    <3>5. ~ MatchesRegisteredAsset(once, package.resources[e], a[3])
      BY <1>6, <3>2, <3>3, <3>4 DEF MatchesRegisteredAsset
    <3>6. QED
      BY <3>1, <3>2, <3>5 DEF Usable
  <2>10. ResolvedAssetName(once, package.resources, a) = <<a, m>>
    BY <2>8, <2>9, ResolvedIs
  <2>11. Register(once, done, a) =
           [resources |-> done.resources,
            names |-> Over([b \in {a} |-> [id |-> package.resources[i].id, name |-> <<a, m>>]], done.names),
            written |-> done.written]
    BY <1>7, <2>3, <2>5, <2>7, <2>10, Zenon DEF Register
  <2>12. QED
    BY <2>5, <2>11
<1>8. PICK S : S = {n \in 0..len :
                      /\ D[n].resources = once[Package] /\ DOMAIN D[n].written = {}
                      /\ DOMAIN D[n].names = RegisteredUpTo(s, n)
                      /\ \A a \in RegisteredUpTo(s, n) : D[n].names[a] = package.names[a]}
  OBVIOUS
<1>9. 0 \in S
  <2>1. D[0] = [resources |-> once[Package], names |-> << >>, written |-> << >>]
    BY <1>3 DEF LoopStep
  <2>2. D[0].resources = once[Package] /\ DOMAIN D[0].names = {} /\ DOMAIN D[0].written = {}
    BY <2>1
  <2>3. RegisteredUpTo(s, 0) = {}
    BY DEF RegisteredUpTo
  <2>4. \A a \in RegisteredUpTo(s, 0) : D[0].names[a] = package.names[a]
    BY <2>3
  <2>5. DOMAIN D[0].names = RegisteredUpTo(s, 0) /\ 0 \in 0..len
    BY <2>2, <2>3
  <2>6. QED
    BY <1>8, <2>2, <2>4, <2>5
<1>10. ASSUME NEW n \in 1..len, n - 1 \in S
       PROVE  n \in S
  <2>1. PICK done : done = D[n - 1]
    OBVIOUS
  <2>2. PICK key : key = s.resources[n].key
    OBVIOUS
  <2>3. PICK before : before = RegisteredUpTo(s, n - 1)
    OBVIOUS
  <2>4. /\ done.resources = once[Package] /\ DOMAIN done.written = {} /\ DOMAIN done.names = before
        /\ \A a \in before : done.names[a] = package.names[a]
    BY <1>8, <1>10, <2>1, <2>3
  <2>5. CASE key \in Assets(s)
    <3>1. PICK asset : asset = Asset(s, key)
      OBVIOUS
    <3>2. D[n] = Register(once, done, asset)
      BY <1>3, <2>1, <2>2, <2>5, <3>1 DEF LoopStep
    <3>3. RegisteredUpTo(s, n) = before \cup {asset}
      BY <2>2, <2>3, <2>5, <3>1 DEF RegisteredUpTo
    <3>4. asset \in AssetsOf(s)
      BY <2>5, <3>1 DEF AssetsOf
    <3>5. done.resources = package.resources
      BY <1>6, <2>4, <2>5
    <3>6. /\ D[n].resources = done.resources /\ D[n].written = done.written
          /\ D[n].names = Over([b \in {asset} |-> package.names[asset]], done.names)
      BY <1>7, <3>2, <3>4, <3>5
    <3>7. /\ DOMAIN D[n].names = before \cup {asset}
          /\ \A a \in before \cup {asset} : D[n].names[a] = package.names[a]
      BY <2>4, <3>6 DEF Over
    <3>8. QED
      BY <1>8, <2>4, <3>3, <3>6, <3>7
  <2>6. CASE key \notin Assets(s)
    <3>1. D[n] = done
      BY <1>3, <2>1, <2>2, <2>6 DEF LoopStep
    <3>2. RegisteredUpTo(s, n) = before
      BY <2>2, <2>3, <2>6 DEF RegisteredUpTo
    <3>3. QED
      BY <1>8, <2>4, <3>1, <3>2
  <2>7. QED
    BY <2>5, <2>6
<1>11. len \in S
  BY <1>9, <1>10, UpTo
<1>12. AssetsOf(s) \subseteq RegisteredUpTo(s, len)
  <2>1. Assets(s) \subseteq {s.resources[i].key : i \in 1..len}
    BY <1>1, AssetsAreDeclared DEF Keys
  <2>2. QED
    BY <2>1 DEF RegisteredUpTo, AssetsOf
<1>13. again = D[len]
  BY <1>1, <1>2 DEF PackageResources
<1>14. QED
  BY <1>8, <1>11, <1>12, <1>13

\* Made again of the package it left, a bundle changes nothing.
LEMMA ConvertTwice ==
  ASSUME NEW s \in Selections, NEW project, Valid(s), Sound(project), Fits(project, s),
         NEW once, once = Over(Convert(project, s), project)
  PROVE  Over(Convert(once, s), once) = once
<1>1. PICK package : package = PackageResources(project, s)
  OBVIOUS
<1>2. PICK again : again = PackageResources(once, s)
  OBVIOUS
<1>3. PICK first : first = Convert(project, s)
  OBVIOUS
<1>4. PICK second : second = Convert(once, s)
  OBVIOUS
<1>5. Done(project, package, AssetsOf(s))
  BY <1>1, PackageFacts
<1>6. /\ again.resources = once[Package] /\ DOMAIN again.written = {}
      /\ \A a \in AssetsOf(s) : again.names[a] = package.names[a]
  BY <1>1, <1>2, LoopFindsAll
<1>7. /\ DOMAIN once = DOMAIN first \cup DOMAIN project
      /\ \A p \in DOMAIN first : once[p] = first[p]
      /\ once = [p \in DOMAIN once |-> once[p]]
  BY <1>3 DEF Over
<1>8. Package \in DOMAIN once
  BY <1>7 DEF Sound
<1>9. /\ Package \in DOMAIN second => second[Package] = again.resources
      /\ \A p \in DOMAIN second : p = Package \/ \E i \in Panels(s) : p = <<"panel", s.roots[i].name>>
      /\ \A i \in Panels(s) :
           second[<<"panel", s.roots[i].name>>] = Panel(s, PanelOf(s, s.roots[i].name), again.names)
  BY <1>2, <1>4, <1>6, ConvertFacts
<1>10. \A i \in Panels(s) :
         /\ <<"panel", s.roots[i].name>> \in DOMAIN first
         /\ first[<<"panel", s.roots[i].name>>] = Panel(s, PanelOf(s, s.roots[i].name), package.names)
  BY <1>1, <1>3, <1>5, ConvertFacts DEF Done
<1>11. \A k \in Panels(s) : Panel(s, k, again.names) = Panel(s, k, package.names)
  <2>1. TAKE k \in Panels(s)
  <2>2. \A key \in References(s.roots[k]) : again.names[Asset(s, key)] = package.names[Asset(s, key)]
    BY <1>6 DEF AssetsOf, Assets
  <2>3. {again.names[Asset(s, key)] : key \in References(s.roots[k])} =
        {package.names[Asset(s, key)] : key \in References(s.roots[k])}
    BY <2>2
  <2>4. QED
    BY <2>3 DEF Panel
<1>12. ASSUME NEW p \in DOMAIN second
       PROVE  p \in DOMAIN once /\ second[p] = once[p]
  <2>1. CASE p = Package
    BY <1>6, <1>8, <1>9, <1>12, <2>1
  <2>2. ASSUME NEW i \in Panels(s), p = <<"panel", s.roots[i].name>>
        PROVE  p \in DOMAIN once /\ second[p] = once[p]
    <3>1. PanelOf(s, s.roots[i].name) \in Panels(s)
      BY PanelOfFacts
    <3>2. second[p] = first[p] /\ p \in DOMAIN first
      BY <1>9, <1>10, <1>11, <2>2, <3>1
    <3>3. QED
      BY <1>7, <3>2
  <2>3. QED
    BY <1>9, <1>12, <2>1, <2>2
<1>13. Over(second, once) = [p \in DOMAIN once |-> once[p]]
  <2>1. DOMAIN second \cup DOMAIN once = DOMAIN once
    BY <1>12
  <2>2. Over(second, once) =
          [p \in DOMAIN once |-> IF p \in DOMAIN second THEN second[p] ELSE once[p]]
    BY <2>1 DEF Over
  <2>3. QED
    BY <1>12, <2>2
<1>14. QED
  BY <1>4, <1>7, <1>13

\* Converting a selection again, once its changes were applied, changes
\* nothing.
THEOREM ConvertingAgainIsHarmless == Spec => []ConversionIsIdempotent
<1>1. ASSUME IInv, NEW s \in Selections, Valid(s), Fits(uploaded, s)
      PROVE  LET once == Applied(uploaded, Convert(uploaded, s))
             IN  Applied(once, Convert(once, s)) = once
  <2>1. Sound(uploaded)
    BY <1>1 DEF IInv
  <2>2. Over(Convert(Over(Convert(uploaded, s), uploaded), s), Over(Convert(uploaded, s), uploaded)) =
        Over(Convert(uploaded, s), uploaded)
    BY <1>1, <2>1, ConvertTwice, Zenon
  <2>3. QED
    BY <2>2, Zenon DEF Applied
<1>2. IInv => ConversionIsIdempotent
  BY <1>1 DEF ConversionIsIdempotent
<1>3. QED
  BY <1>2, ConversionInvariance, PTL
=============================================================================
