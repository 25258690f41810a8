----------------------- MODULE SelectionStoreProofs ------------------------
(***************************************************************************)
(* Proofs about SelectionStore, for any keys, manifests, expiry time,      *)
(* number of uploads, restarts and lost messages.                          *)
(***************************************************************************)
EXTENDS SelectionStore, WellFoundedInduction, TLAPS

Client == [step : Steps, upload : Uploads \cup {None}, next : Nat,
           again : BOOLEAN, disturbed : BOOLEAN]
Sweep == [step : {"idle", "clean", "delete"}, chosen : SUBSET Uploads, cleaned : SUBSET Uploads]

\* What the row of an upload says was promised to arrive.
Promised(u) ==
  IF uploads[u] = None \/ uploads[u].state = "created" THEN {}
  ELSE ResourceKeys(uploads[u].manifest)

\* Rows are those of opened uploads, with the manifest their key is for; what
\* arrived, or lies in the directory of a row, was declared by it.
RowsFollowKeys ==
  \A u \in Uploads :
    /\ uploads[u] # None =>
         /\ u <= opened /\ uploads[u].expires >= UploadTTL
         /\ uploads[u].state = "created" \/ uploads[u].manifest = Manifest[uploads[u].key]
         /\ dirs[u] = None \/ dirs[u] \subseteq Promised(u)
    /\ received[u] \subseteq Promised(u)

\* The upload a send works on has, if any, the row of the send's key.
ClientsFollowKeys ==
  \A k \in Keys :
    /\ client[k].upload # None =>
         /\ client[k].upload <= opened
         /\ uploads[client[k].upload] = None \/ uploads[client[k].upload].key = k
    /\ client[k].step \in {"manifest", "resources", "commit", "waiting"} => client[k].upload # None
    /\ client[k].step = "resources" => client[k].next \in DOMAIN Declared[Manifest[k]]

HasArtifact(m) == \E a \in artifacts : a.manifest = m /\ a.fingerprint = Fingerprint(m)

\* A commit still has all it checked while it holds the write lock.
WriterIsReady ==
  writer # None =>
    /\ uploads[writer.upload] # None /\ Ready(writer.upload)
    /\ writer.step = "finish" => HasArtifact(uploads[writer.upload].manifest)

ArtifactsAreWhole == \A a \in artifacts : a.files = ResourceKeys(a.manifest)

\* A Selection keeps the row it was committed for, unless a sweep raced it.
SelectionsHaveRows ==
  \A i \in 1..Len(selections) : selections[i].upload \notin raced =>
    LET row == uploads[selections[i].upload]
    IN  row # None /\ row.key = selections[i].key /\ row.selection = i

\* An upload a sweep has chosen can be committed by a commit that was under
\* way, and by no other.
SweepIsOfExpired ==
  /\ sweep \in Sweep
  /\ \A u \in sweep.chosen :
       /\ uploads[u] # None /\ uploads[u].expires <= clock
       /\ u \notin raced => ~Committed(u) /\ (writer # None => writer.upload # u)

CleaningIsCommitted ==
  \A u \in cleaning : u <= opened /\ (uploads[u] # None => Committed(u))

\* A send that has met no expiry and no loss it does not make good, of
\* resources in key order.
Undisturbed(k) == client[k].disturbed = FALSE /\ Verifies(Manifest[k])

LiveRows(k) ==
  \A u \in Sessions(k) : ~Committed(u) => clock < uploads[u].expires /\ Copyable(u)

\* What has arrived for such a send, step by step.
Arrived(u, k, n) == received[u] = {Declared[Manifest[k]][i] : i \in 1..n - 1}

OnCourse(k) ==
  LET c == client[k]
  IN  /\ c.step = "ready" => \A u \in Uploads : uploads[u] = None \/ uploads[u].key # k
      /\ c.step = "create" =>
           \A u \in Uploads : uploads[u] # None /\ uploads[u].key = k =>
             uploads[u].state = "created" /\ received[u] = {}
      /\ c.step = "manifest" =>
           uploads[c.upload] # None /\ uploads[c.upload].state = "created" /\ received[c.upload] = {}
      /\ c.step = "resources" =>
           /\ uploads[c.upload] # None
           /\ uploads[c.upload].state \in {"manifest_received", "resources_pending"}
           /\ Arrived(c.upload, k, c.next)
      /\ c.step \in {"commit", "waiting"} =>
           uploads[c.upload] # None /\ (Committed(c.upload) \/ Ready(c.upload))

Accepted(k) ==
  \A code \in {"selection_not_found", "selection_upload_state", "selection_resource_duplicate",
               "selection_resources_missing", "unverifiable"} : <<k, code>> \notin refusals

OnTrack(k) == Undisturbed(k) => LiveRows(k) /\ OnCourse(k) /\ Accepted(k)

\* No sweep has chosen an upload of an undisturbed send.
SweepSpares == \A u \in sweep.chosen : ~Undisturbed(uploads[u].key)

Sends == SweepSpares /\ \A k \in Keys : OnTrack(k)

\* The inductive invariant: what holds whatever happens, and what holds of
\* undisturbed sends.
Safe ==
  /\ TypeOK /\ RowsFollowKeys /\ ClientsFollowKeys /\ WriterIsReady /\ ArtifactsAreWhole
  /\ SelectionsAreWhole /\ SelectionsHaveRows /\ SweepIsOfExpired /\ CleaningIsCommitted

IInv == Safe /\ Sends
-----------------------------------------------------------------------------
(* Lists in key order.                                                     *)

\* A set of numbers has a least one: what the inductions below rest on.
LEMMA Least ==
  ASSUME NEW S, S \subseteq Nat, S # {}
  PROVE  \E m \in S : \A n \in S : m <= n
<1>1. PICK m \in S : \A n \in S : ~ (<<n, m>> \in OpToRel(<, Nat))
  BY NatLessThanWellFounded, WFMin
<1>2. \A n \in S : ~ (n < m)
  BY <1>1 DEF OpToRel
<1>3. QED
  BY <1>2

\* Induction up to a bound, with the set of the numbers it has reached.
LEMMA UpTo ==
  ASSUME NEW len \in Nat, NEW S, 0 \in S, \A k \in 1..len : k - 1 \in S => k \in S
  PROVE  0..len \subseteq S
<1>1. SUFFICES ASSUME (0..len) \ S # {} PROVE FALSE
  OBVIOUS
<1>2. PICK m \in (0..len) \ S : \A n \in (0..len) \ S : m <= n
  <2>1. (0..len) \ S \subseteq Nat
    OBVIOUS
  <2>2. QED
    BY <1>1, <2>1, Least
<1>3. m \in 1..len /\ m - 1 \in 0..len /\ ~(m <= m - 1)
  BY <1>2
<1>4. m - 1 \in S
  BY <1>2, <1>3
<1>5. QED
  BY <1>2, <1>3, <1>4

FirstKeys(keys, n) == {keys[i] : i \in 1..n}

HasOrder(keys, n) ==
  \E q \in [1..n -> FirstKeys(keys, n)] : \A i, j \in 1..n : i < j => q[i] < q[j]

LEMMA KeyIsAmongFirst ==
  ASSUME NEW keys, NEW n, NEW i \in 1..n
  PROVE  keys[i] \in FirstKeys(keys, n)
BY DEF FirstKeys

\* One more key has its place in the order of those before it.
LEMMA OneMoreKey ==
  ASSUME NEW keys \in Seq(Nat), \A i, j \in DOMAIN keys : keys[i] = keys[j] => i = j,
         NEW n \in 1..Len(keys), HasOrder(keys, n - 1)
  PROVE  HasOrder(keys, n)
<1>1. PICK q \in [1..n - 1 -> FirstKeys(keys, n - 1)] : \A i, j \in 1..n - 1 : i < j => q[i] < q[j]
  BY DEF HasOrder
<1>2. keys[n] \in Nat /\ \A i \in 1..n - 1 : keys[i] \in Nat /\ keys[i] # keys[n]
  OBVIOUS
<1>3. \A i \in 1..n - 1 : q[i] \in Nat /\ q[i] # keys[n]
  BY <1>2 DEF FirstKeys
<1>4. PICK p \in 1..n : /\ p = n \/ keys[n] < q[p]
                       /\ \A i \in 1..n - 1 : i < p => q[i] < keys[n]
  <2> DEFINE later == {i \in 1..n : i = n \/ keys[n] < q[i]}
  <2>1. later \subseteq Nat /\ n \in later
    OBVIOUS
  <2>2. PICK p \in later : \A i \in later : p <= i
    BY <2>1, Least
  <2>3. ASSUME NEW i \in 1..n - 1, i < p PROVE q[i] < keys[n]
    <3>1. i \notin later
      BY <2>2, <2>3
    <3>2. QED
      BY <1>2, <1>3, <3>1
  <2>4. QED
    BY <2>2, <2>3
<1>5. PICK r : r = [i \in 1..n |-> IF i < p THEN q[i] ELSE IF i = p THEN keys[n] ELSE q[i - 1]]
  OBVIOUS
<1>6. r \in [1..n -> FirstKeys(keys, n)]
  <2>1. ASSUME NEW i \in 1..n PROVE r[i] \in FirstKeys(keys, n)
    <3>1. ASSUME NEW j \in 1..n - 1 PROVE q[j] \in FirstKeys(keys, n)
      <4>1. q[j] \in FirstKeys(keys, n - 1)
        OBVIOUS
      <4>2. PICK k \in 1..n - 1 : q[j] = keys[k]
        BY <4>1 DEF FirstKeys
      <4>3. k \in 1..n
        OBVIOUS
      <4>4. QED
        BY <4>2, <4>3, KeyIsAmongFirst
    <3>2. keys[n] \in FirstKeys(keys, n)
      <4>1. n \in 1..n
        OBVIOUS
      <4>2. QED
        BY <4>1, KeyIsAmongFirst
    <3>3. i < p => i \in 1..n - 1
      OBVIOUS
    <3>4. i > p => i - 1 \in 1..n - 1
      OBVIOUS
    <3>5. QED
      BY <1>5, <3>1, <3>2, <3>3, <3>4
  <2>2. QED
    BY <1>5, <2>1
<1>7. ASSUME NEW i \in 1..n, NEW j \in 1..n, i < j PROVE r[i] < r[j]
  <2>1. CASE j < p
    BY <1>1, <1>5, <1>7, <2>1
  <2>2. CASE j = p
    BY <1>4, <1>5, <1>7, <2>2
  <2>3. CASE j > p
    <3>1. /\ r[j] = q[j - 1] /\ j - 1 \in 1..n - 1 /\ p \in 1..n - 1
          /\ keys[n] < q[p] /\ q[p] \in Nat /\ q[j - 1] \in Nat
      BY <1>3, <1>4, <1>5, <2>3
    <3>2. q[p] <= q[j - 1]
      <4>1. CASE p = j - 1
        BY <3>1, <4>1
      <4>2. CASE p < j - 1
        BY <1>1, <3>1, <4>2
      <4>3. QED
        BY <2>3, <4>1, <4>2
    <3>3. keys[n] < r[j]
      <4>1. keys[n] \in Nat
        BY <1>2
      <4>2. QED
        BY <3>1, <3>2, <4>1
    <3>4. CASE i < p
      <4>1. r[i] = q[i] /\ i \in 1..n - 1
        BY <1>5, <3>4
      <4>2. r[i] \in Nat /\ r[i] < keys[n] /\ keys[n] \in Nat
        BY <1>2, <1>3, <1>4, <3>4, <4>1
      <4>3. r[j] \in Nat
        BY <3>1
      <4>4. QED
        BY <3>3, <4>2, <4>3
    <3>5. CASE i = p
      BY <1>5, <3>3, <3>5
    <3>6. CASE i > p
      <4>1. r[i] = q[i - 1] /\ i - 1 \in 1..n - 1 /\ i - 1 < j - 1
        BY <1>5, <1>7, <3>6
      <4>2. QED
        BY <1>1, <3>1, <4>1
    <3>7. QED
      BY <3>4, <3>5, <3>6
  <2>4. QED
    BY <2>1, <2>2, <2>3
<1>8. QED
  BY <1>6, <1>7 DEF HasOrder

\* The fingerprint of a manifest lists its resources.
LEMMA FingerprintFacts ==
  ASSUME NEW m \in Manifests
  PROVE  Fingerprint(m) \in Seq(Nat)
<1>1. PICK keys : keys = Declared[m]
  OBVIOUS
<1>2. keys \in Seq(Nat) /\ \A i, j \in DOMAIN keys : keys[i] = keys[j] => i = j
  BY <1>1, DeclaredAssumption
<1>3. PICK S : S = {n \in 0..Len(keys) : HasOrder(keys, n)}
  OBVIOUS
<1>4. 0 \in S
  <2>1. [i \in 1..0 |-> 0] \in [1..0 -> FirstKeys(keys, 0)]
    OBVIOUS
  <2>2. \A i, j \in 1..0 : i < j => [k \in 1..0 |-> 0][i] < [k \in 1..0 |-> 0][j]
    OBVIOUS
  <2>3. HasOrder(keys, 0)
    BY <2>1, <2>2 DEF HasOrder
  <2>4. QED
    BY <1>2, <1>3, <2>3
<1>5. ASSUME NEW n \in 1..Len(keys), n - 1 \in S PROVE n \in S
  BY <1>2, <1>3, <1>5, OneMoreKey
<1>6. HasOrder(keys, Len(keys))
  <2>1. Len(keys) \in Nat
    BY <1>2
  <2>2. 0..Len(keys) \subseteq S
    BY <1>4, <1>5, <2>1, UpTo
  <2>3. QED
    BY <1>3, <2>1, <2>2
<1>7. FirstKeys(keys, Len(keys)) = ResourceKeys(m)
  BY <1>1, <1>2 DEF FirstKeys, ResourceKeys
<1>8. InKeyOrder(m) \in [1..Len(keys) -> ResourceKeys(m)]
  BY <1>1, <1>6, <1>7 DEF InKeyOrder, HasOrder
<1>9. ResourceKeys(m) \subseteq Nat /\ Len(keys) \in Nat
  <2>1. \A i \in DOMAIN keys : keys[i] \in Nat
    BY <1>2
  <2>2. ASSUME NEW x \in ResourceKeys(m) PROVE x \in Nat
    <3>1. PICK i \in DOMAIN Declared[m] : x = Declared[m][i]
      BY DEF ResourceKeys
    <3>2. QED
      BY <1>1, <2>1, <3>1
  <2>3. Len(keys) \in Nat
    BY <1>2
  <2>4. QED
    BY <2>2, <2>3
<1>10. QED
  BY <1>8, <1>9 DEF Fingerprint

-----------------------------------------------------------------------------
(* The sends.                                                              *)

\* What the ways on of a send change.
LEMMA ClientFacts ==
  ASSUME client \in [Keys -> Client], NEW k \in Keys
  PROVE  /\ client[k] \in Client
         /\ Stop(k) \in Client /\ Stop(k).upload = client[k].upload /\ Stop(k).step = "ready"
         /\ Stop(k).disturbed = client[k].disturbed
         /\ AfterLoss(k) \in Client /\ AfterLoss(k).upload = client[k].upload
         /\ AfterLoss(k).step \in {"ready", "create", "commit"}
         /\ AfterLoss(k).step = "commit" => client[k].step \in {"commit", "waiting"}
         /\ AfterLoss(k).disturbed = FALSE =>
              /\ client[k].disturbed = FALSE
              /\ \/ client[k].step = "create" /\ AfterLoss(k).step = "create"
                 \/ client[k].step \in {"commit", "waiting"} /\ AfterLoss(k).step = "commit"
         /\ \A s \in Steps : /\ Proceed(k, s) \in Client /\ Proceed(k, s).upload = client[k].upload
                              /\ Proceed(k, s).step = s
                              /\ Proceed(k, s).disturbed = client[k].disturbed
<1>1. PICK c : c = client[k]
  OBVIOUS
<1>2. c \in Client /\ {"step", "upload", "next", "again", "disturbed"} \subseteq DOMAIN c
  BY <1>1 DEF Client
<1>3. {"ready", "create", "commit"} \subseteq Steps
  BY DEF Steps
<1>4. \A s \in Steps :
        /\ [c EXCEPT !.step = s, !.again = FALSE] \in Client
        /\ [c EXCEPT !.step = s, !.again = TRUE] \in Client
        /\ [[c EXCEPT !.step = s, !.again = FALSE] EXCEPT !.disturbed = TRUE] \in Client
  BY <1>2 DEF Client
<1>5. \A s \in Steps : \A b \in BOOLEAN :
        /\ [c EXCEPT !.step = s, !.again = b].upload = c.upload
        /\ [c EXCEPT !.step = s, !.again = b].step = s
        /\ [c EXCEPT !.step = s, !.again = b].disturbed = c.disturbed
  BY <1>2
<1>6. \A s \in Steps : Proceed(k, s) = [c EXCEPT !.step = s, !.again = FALSE]
  BY <1>1 DEF Proceed
<1>7. Stop(k) = [c EXCEPT !.step = "ready", !.again = FALSE]
  BY <1>1 DEF Stop
<1>8. \/ /\ AfterLoss(k) = [c EXCEPT !.step = "create", !.again = TRUE]
         /\ c.step = "create"
      \/ /\ AfterLoss(k) = [c EXCEPT !.step = "commit", !.again = TRUE]
         /\ c.step \in {"commit", "waiting"}
      \/ AfterLoss(k) = [[c EXCEPT !.step = "ready", !.again = FALSE] EXCEPT !.disturbed = TRUE]
  BY <1>1, <1>2 DEF AfterLoss, Stop
<1>9. /\ Stop(k) \in Client /\ Stop(k).upload = c.upload /\ Stop(k).step = "ready"
      /\ Stop(k).disturbed = c.disturbed
  BY <1>2, <1>3, <1>4, <1>7
<1>10. /\ AfterLoss(k) \in Client /\ AfterLoss(k).upload = c.upload
       /\ AfterLoss(k).step \in {"ready", "create", "commit"}
       /\ AfterLoss(k).step = "commit" => c.step \in {"commit", "waiting"}
       /\ AfterLoss(k).disturbed = FALSE =>
            /\ c.disturbed = FALSE
            /\ \/ c.step = "create" /\ AfterLoss(k).step = "create"
               \/ c.step \in {"commit", "waiting"} /\ AfterLoss(k).step = "commit"
  <2>1. CASE /\ AfterLoss(k) = [c EXCEPT !.step = "create", !.again = TRUE]
             /\ c.step = "create"
    <3>1. /\ [c EXCEPT !.step = "create", !.again = TRUE] \in Client
          /\ [c EXCEPT !.step = "create", !.again = TRUE].upload = c.upload
          /\ [c EXCEPT !.step = "create", !.again = TRUE].step = "create"
          /\ [c EXCEPT !.step = "create", !.again = TRUE].disturbed = c.disturbed
      BY <1>3, <1>4, <1>5
    <3>2. QED
      BY <2>1, <3>1
  <2>2. CASE /\ AfterLoss(k) = [c EXCEPT !.step = "commit", !.again = TRUE]
             /\ c.step \in {"commit", "waiting"}
    <3>1. /\ [c EXCEPT !.step = "commit", !.again = TRUE] \in Client
          /\ [c EXCEPT !.step = "commit", !.again = TRUE].upload = c.upload
          /\ [c EXCEPT !.step = "commit", !.again = TRUE].step = "commit"
          /\ [c EXCEPT !.step = "commit", !.again = TRUE].disturbed = c.disturbed
      BY <1>3, <1>4, <1>5
    <3>2. QED
      BY <2>2, <3>1
  <2>3. CASE AfterLoss(k) = [[c EXCEPT !.step = "ready", !.again = FALSE] EXCEPT !.disturbed = TRUE]
    <3>1. AfterLoss(k) \in Client
      BY <1>3, <1>4, <2>3
    <3>2. AfterLoss(k).upload = c.upload /\ AfterLoss(k).step = "ready" /\ AfterLoss(k).disturbed = TRUE
      BY <1>2, <2>3
    <3>3. QED
      BY <3>1, <3>2
  <2>4. QED
    BY <1>8, <2>1, <2>2, <2>3
<1>11. QED
  BY <1>1, <1>4, <1>5, <1>6, <1>9, <1>10

LEMMA ResourceFacts ==
  ASSUME client \in [Keys -> Client], NEW k \in Keys, NEW i \in Nat
  PROVE  /\ AfterResource(k, i) \in Client
         /\ AfterResource(k, i).upload = client[k].upload /\ AfterResource(k, i).next = i
         /\ AfterResource(k, i).disturbed = client[k].disturbed
         /\ AfterResource(k, i).step =
              IF i > Len(Declared[Manifest[k]]) THEN "commit" ELSE "resources"
<1>1. PICK c, s : c = client[k] /\ s = IF i > Len(Declared[Manifest[k]]) THEN "commit" ELSE "resources"
  OBVIOUS
<1>2. c \in Client /\ {"step", "upload", "next", "again", "disturbed"} \subseteq DOMAIN c /\ s \in Steps
  BY <1>1 DEF Client, Steps
<1>3. AfterResource(k, i) = [c EXCEPT !.next = i, !.again = FALSE, !.step = s]
  BY <1>1 DEF AfterResource
<1>4. AfterResource(k, i) \in Client
  BY <1>2, <1>3 DEF Client
<1>5. QED
  BY <1>1, <1>2, <1>3, <1>4

LEMMA SessionFacts ==
  ASSUME client \in [Keys -> Client], NEW k \in Keys, NEW u \in Uploads
  PROVE  LET c == [Proceed(k, "manifest") EXCEPT !.upload = u, !.next = 1]
         IN  /\ c \in Client /\ c.upload = u /\ c.next = 1 /\ c.step = "manifest"
             /\ c.disturbed = client[k].disturbed
<1>1. PICK p : p = Proceed(k, "manifest")
  OBVIOUS
<1>2. /\ p \in Client /\ {"step", "upload", "next", "again", "disturbed"} \subseteq DOMAIN p
      /\ p.step = "manifest" /\ p.disturbed = client[k].disturbed
  <2>1. "manifest" \in Steps
    BY DEF Steps
  <2>2. QED
    BY <1>1, <2>1, ClientFacts DEF Client
<1>3. PICK c : c = [p EXCEPT !.upload = u, !.next = 1]
  OBVIOUS
<1>4. c \in Client
  BY <1>2, <1>3 DEF Client
<1>5. c.upload = u /\ c.next = 1 /\ c.step = "manifest" /\ c.disturbed = client[k].disturbed
  BY <1>2, <1>3
<1>6. QED
  BY <1>1, <1>3, <1>4, <1>5

KeysKept ==
  /\ opened' >= opened
  /\ \A u \in Uploads : u <= opened /\ uploads'[u] # None =>
       uploads[u] # None /\ uploads'[u].key = uploads[u].key

\* A send that goes on keeps to the rows of its key.
GoesOn(k, c) ==
  /\ c \in Client
  /\ \/ c.upload = client[k].upload
     \/ c.upload \in Uploads /\ c.upload <= opened' /\ uploads'[c.upload] # None
        /\ uploads'[c.upload].key = k
  /\ c.step \in {"manifest", "resources", "commit", "waiting"} => c.upload # None
  /\ c.step = "resources" => c.next \in DOMAIN Declared[Manifest[k]]

ClientsFollow == client \in [Keys -> Client] /\ ClientsFollowKeys

LEMMA ClientGoesOn ==
  ASSUME ClientsFollow, opened \in Nat, opened' \in Nat, KeysKept,
         NEW k \in Keys, NEW c, GoesOn(k, c), Becomes(k, c)
  PROVE  ClientsFollow'
<1>1. client' \in [Keys -> Client] /\ client'[k] = c /\ \A l \in Keys \ {k} : client'[l] = client[l]
  BY DEF ClientsFollow, GoesOn, Becomes
<1>2. ASSUME NEW l \in Keys, client'[l].upload = client[l].upload, client[l].upload # None
      PROVE  /\ client'[l].upload <= opened'
             /\ uploads'[client'[l].upload] = None \/ uploads'[client'[l].upload].key = l
  <2>1. client[l].upload \in Uploads /\ client[l].upload \in Nat
    BY <1>2 DEF ClientsFollow, Client, Uploads
  <2>2. /\ client[l].upload <= opened
        /\ uploads[client[l].upload] = None \/ uploads[client[l].upload].key = l
    BY <1>2 DEF ClientsFollow, ClientsFollowKeys
  <2>3. QED
    BY <1>2, <2>1, <2>2 DEF KeysKept
<1>3. ASSUME NEW l \in Keys, client'[l].upload # None
      PROVE  /\ client'[l].upload <= opened'
             /\ uploads'[client'[l].upload] = None \/ uploads'[client'[l].upload].key = l
  <2>1. CASE l = k
    BY <1>1, <1>2, <1>3, <2>1 DEF GoesOn
  <2>2. CASE l # k
    BY <1>1, <1>2, <1>3, <2>2
  <2>3. QED
    BY <2>1, <2>2
<1>4. ASSUME NEW l \in Keys
      PROVE  /\ client'[l].step \in {"manifest", "resources", "commit", "waiting"} =>
                  client'[l].upload # None
             /\ client'[l].step = "resources" => client'[l].next \in DOMAIN Declared[Manifest[l]]
  <2>1. CASE l = k
    BY <1>1, <2>1 DEF GoesOn
  <2>2. CASE l # k
    BY <1>1, <2>2 DEF ClientsFollow, ClientsFollowKeys
  <2>3. QED
    BY <2>1, <2>2
<1>5. QED
  BY <1>1, <1>3, <1>4 DEF ClientsFollow, ClientsFollowKeys

LEMMA WaysOut ==
  ASSUME ClientsFollow, NEW k \in Keys
  PROVE  GoesOn(k, Stop(k)) /\ GoesOn(k, AfterLoss(k))
<1>1. client \in [Keys -> Client]
  BY DEF ClientsFollow
<1>2. client[k].step \in {"commit", "waiting"} => client[k].upload # None
  BY DEF ClientsFollow, ClientsFollowKeys
<1>3. GoesOn(k, Stop(k))
  BY <1>1, ClientFacts DEF GoesOn
<1>4. QED
  BY <1>1, <1>2, <1>3, ClientFacts DEF GoesOn

LEMMA ReplyGoesOn ==
  ASSUME Safe, opened' \in Nat, KeysKept, NEW k \in Keys, NEW c, GoesOn(k, c), Replied(k, c)
  PROVE  ClientsFollow' /\ faults' \in 0..MaxFaults
<1>1. ClientsFollow /\ opened \in Nat /\ faults \in 0..MaxFaults /\ MaxFaults \in Nat
  BY LimitsAssumption DEF Safe, TypeOK, ClientsFollow, Client
<1>2. CASE Becomes(k, c) /\ UNCHANGED faults
  BY <1>1, <1>2, ClientGoesOn
<1>3. CASE faults < MaxFaults /\ faults' = faults + 1 /\ Becomes(k, AfterLoss(k))
  BY <1>1, <1>3, ClientGoesOn, WaysOut
<1>4. QED
  BY <1>2, <1>3 DEF Replied

\* A step that changes nothing but where sends stand.
LEMMA OnlySends ==
  ASSUME Safe, ClientsFollow', faults' \in 0..MaxFaults,
         UNCHANGED <<serverVars, writer, cleaning, sweepVars, clock, opened>>
  PROVE  Safe'
<1>1. TypeOK'
  BY DEF Safe, TypeOK, ClientsFollow, Client, serverVars, sweepVars
<1>2. RowsFollowKeys' /\ ClientsFollowKeys' /\ CleaningIsCommitted'
  BY DEF Safe, RowsFollowKeys, Promised, ClientsFollow, CleaningIsCommitted, Committed, serverVars
<1>3. WriterIsReady' /\ ArtifactsAreWhole' /\ SelectionsAreWhole'
  BY DEF Safe, WriterIsReady, Ready, HasArtifact, ArtifactsAreWhole, SelectionsAreWhole, serverVars
<1>4. SelectionsHaveRows' /\ SweepIsOfExpired'
  BY DEF Safe, SelectionsHaveRows, SweepIsOfExpired, Committed, serverVars, sweepVars
<1>5. QED
  BY <1>1, <1>2, <1>3, <1>4 DEF Safe

\* Safe steps that change no row.
LEMMA SendsAreSafe ==
  ASSUME Safe, NEW k \in Keys
  PROVE  /\ Send(k) => Safe'
         /\ RequestLost(k) => Safe'
         /\ \A code : Refused(k, code) /\ UNCHANGED <<cleaning, sweepVars, clock>> => Safe'
<1>1. ClientsFollow /\ opened \in Nat /\ faults \in 0..MaxFaults /\ MaxFaults \in Nat
  BY LimitsAssumption DEF Safe, TypeOK, ClientsFollow, Client
<1>2. ASSUME UNCHANGED <<uploads, opened>> PROVE KeysKept /\ opened' \in Nat
  BY <1>1, <1>2 DEF KeysKept
<1>3. ASSUME Send(k) PROVE Safe'
  <2>1. GoesOn(k, Proceed(k, "create"))
    <3>1. "create" \in Steps
      BY DEF Steps
    <3>2. QED
      BY <1>1, <3>1, ClientFacts DEF GoesOn, ClientsFollow
  <2>2. ClientsFollow'
    BY <1>1, <1>2, <1>3, <2>1, ClientGoesOn DEF Send, serverVars
  <2>3. QED
    BY <1>1, <1>3, <2>2, OnlySends DEF Send
<1>4. ASSUME RequestLost(k) PROVE Safe'
  <2>1. ClientsFollow'
    BY <1>1, <1>2, <1>4, WaysOut, ClientGoesOn DEF RequestLost, serverVars
  <2>2. QED
    BY <1>1, <1>4, <2>1, OnlySends DEF RequestLost
<1>5. ASSUME NEW code, Refused(k, code), UNCHANGED <<cleaning, sweepVars, clock>> PROVE Safe'
  <2>1. ClientsFollow'
    BY <1>1, <1>2, <1>5, WaysOut, ClientGoesOn DEF Refused, serverVars
  <2>2. QED
    BY <1>1, <1>5, <2>1, OnlySends DEF Refused
<1>6. QED
  BY <1>3, <1>4, <1>5

-----------------------------------------------------------------------------
(* The requests that write rows.                                           *)

LEMMA SelectionFacts ==
  ASSUME selections \in Seq(Selection)
  PROVE  /\ Len(selections) \in Nat
         /\ \A i \in 1..Len(selections) :
              selections[i] \in Selection /\ selections[i].upload \in Uploads
<1>1. \A i \in 1..Len(selections) : selections[i] \in Selection
  OBVIOUS
<1>2. QED
  BY <1>1 DEF Selection

LEMMA CreateIsSafe ==
  ASSUME Safe, NEW k \in Keys, CreateUpload(k)
  PROVE  Safe'
<1>1. /\ ClientsFollow /\ client \in [Keys -> Client] /\ opened \in 0..MaxUploads /\ MaxUploads \in Nat
      /\ uploads \in [Uploads -> Row \cup {None}] /\ dirs \in [Uploads -> (SUBSET AllResources) \cup {None}]
      /\ clock \in Nat /\ UploadTTL \in Nat
  BY LimitsAssumption DEF Safe, TypeOK, ClientsFollow, Client
<1>2. ASSUME NEW u \in Sessions(k),
             Replied(k, [Proceed(k, "manifest") EXCEPT !.upload = u, !.next = 1]),
             UNCHANGED <<serverVars, opened>>
      PROVE  Safe'
  <2>1. KeysKept /\ opened' \in Nat
    BY <1>1, <1>2 DEF KeysKept, serverVars
  <2>2. u \in Uploads /\ uploads[u] # None /\ uploads[u].key = k /\ uploads' = uploads
    BY <1>2 DEF Sessions, serverVars
  <2>3. u <= opened'
    BY <1>2, <2>2 DEF Safe, RowsFollowKeys
  <2>4. GoesOn(k, [Proceed(k, "manifest") EXCEPT !.upload = u, !.next = 1])
    <3>1. u # None
      BY <2>2, NoneIsNoValue
    <3>2. PICK c : c = [Proceed(k, "manifest") EXCEPT !.upload = u, !.next = 1]
      OBVIOUS
    <3>3. c \in Client /\ c.upload = u /\ c.step = "manifest"
      <4>1. client \in [Keys -> Client] /\ k \in Keys /\ u \in Uploads
        BY <1>1, <2>2
      <4>2. QED
        BY <3>2, <4>1, SessionFacts
    <3>4. GoesOn(k, c)
      BY <2>2, <2>3, <3>1, <3>3 DEF GoesOn
    <3>5. QED
      BY <3>2, <3>4
  <2>5. ClientsFollow' /\ faults' \in 0..MaxFaults
    BY <1>2, <2>1, <2>4, ReplyGoesOn
  <2>6. QED
    BY <1>2, <2>5, OnlySends DEF CreateUpload
<1>3. ASSUME Sessions(k) = {}, writer = None, opened < MaxUploads, opened' = opened + 1,
             uploads' = [uploads EXCEPT ![opened'] =
               [key |-> k, state |-> "created", expires |-> clock + UploadTTL,
                manifest |-> None, selection |-> 0]],
             dirs' = [dirs EXCEPT ![opened'] = {}],
             Replied(k, [Proceed(k, "manifest") EXCEPT !.upload = opened', !.next = 1]),
             UNCHANGED <<received, selections, artifacts>>
      PROVE  Safe'
  <2>1. PICK n, row : /\ n = opened + 1
                      /\ row = [key |-> k, state |-> "created", expires |-> clock + UploadTTL,
                                manifest |-> None, selection |-> 0]
    OBVIOUS
  <2>2. n \in Uploads /\ n \in Nat /\ n # None /\ opened' = n /\ n > opened
    BY <1>1, <1>3, <2>1, NoneIsNoValue DEF Uploads
  <2>3. row \in Row /\ row # None
    BY <1>1, <2>1, NoneIsNoValue DEF Row
  <2>4. /\ row.key = k /\ row.state = "created" /\ row.expires = clock + UploadTTL
        /\ row.selection = 0
    BY <2>1
  <2>5. /\ uploads' \in [Uploads -> Row \cup {None}] /\ uploads'[n] = row
        /\ dirs' \in [Uploads -> (SUBSET AllResources) \cup {None}] /\ dirs'[n] = {}
        /\ \A u \in Uploads \ {n} : uploads'[u] = uploads[u] /\ dirs'[u] = dirs[u]
    <3>1. uploads' = [uploads EXCEPT ![n] = row] /\ dirs' = [dirs EXCEPT ![n] = {}]
      BY <1>3, <2>1, <2>2
    <3>2. QED
      BY <1>1, <2>2, <2>3, <3>1
  <2>6. uploads[n] = None
    BY <1>1, <2>2 DEF Safe, RowsFollowKeys, Uploads
  <2>7. received[n] = {}
    BY <2>2, <2>6 DEF Safe, RowsFollowKeys, Promised
  <2>8. \A u \in Uploads : uploads[u] # None => uploads[u].key # k
    BY <1>3 DEF Sessions
  <2>9. KeysKept /\ opened' \in Nat
    BY <1>1, <2>2, <2>5 DEF KeysKept, Uploads
  <2>10. GoesOn(k, [Proceed(k, "manifest") EXCEPT !.upload = opened', !.next = 1])
    <3>1. PICK c : c = [Proceed(k, "manifest") EXCEPT !.upload = n, !.next = 1]
      OBVIOUS
    <3>2. c \in Client /\ c.upload = n /\ c.step = "manifest"
      BY <1>1, <2>2, <3>1, SessionFacts
    <3>3. n <= opened' /\ uploads'[n] # None /\ uploads'[n].key = k
      BY <2>2, <2>3, <2>4, <2>5
    <3>4. GoesOn(k, c)
      BY <2>2, <3>2, <3>3 DEF GoesOn
    <3>5. QED
      BY <2>2, <3>1, <3>4
  <2>11. ClientsFollow' /\ faults' \in 0..MaxFaults
    BY <1>3, <2>9, <2>10, ReplyGoesOn
  <2>12. UNCHANGED <<writer, cleaning, sweepVars, clock>> /\ writer = None
    BY <1>3 DEF CreateUpload
  <2>13. TypeOK'
    <3>1. ASSUME NEW u \in Uploads, uploads'[u] # None
          PROVE  /\ uploads'[u].selection \in 0..Len(selections)
                 /\ (uploads'[u].state = "committed") <=> (uploads'[u].selection > 0)
                 /\ \A v \in Uploads \ {u} : uploads'[v] # None => uploads'[v].key # uploads'[u].key
      <4>1. Len(selections) \in Nat
        BY DEF Safe, TypeOK
      <4>2. CASE u = n
        BY <2>4, <2>5, <2>8, <4>1, <4>2
      <4>3. CASE u # n
        BY <2>4, <2>5, <2>8, <3>1, <4>3 DEF Safe, TypeOK
      <4>4. QED
        BY <4>2, <4>3
    <3>2. QED
      BY <1>1, <1>3, <2>2, <2>5, <2>11, <2>12, <3>1 DEF Safe, TypeOK, ClientsFollow, Client, sweepVars
  <2>14. RowsFollowKeys'
    <3>1. ASSUME NEW u \in Uploads
          PROVE  /\ uploads'[u] # None =>
                      /\ u <= opened' /\ uploads'[u].expires >= UploadTTL
                      /\ uploads'[u].state = "created" \/ uploads'[u].manifest = Manifest[uploads'[u].key]
                      /\ dirs'[u] = None \/ dirs'[u] \subseteq Promised(u)'
                 /\ received'[u] \subseteq Promised(u)'
      <4>1. CASE u = n
        BY <1>1, <1>3, <2>2, <2>4, <2>5, <2>7, <4>1 DEF Promised
      <4>2. CASE u # n
        <5>1. uploads'[u] = uploads[u] /\ dirs'[u] = dirs[u] /\ received'[u] = received[u] /\ Promised(u)' = Promised(u)
          BY <1>3, <2>5, <4>2 DEF Promised
        <5>2. u \in Nat
          BY DEF Uploads
        <5>3. QED
          BY <1>1, <2>2, <5>1, <5>2 DEF Safe, RowsFollowKeys
      <4>3. QED
        BY <4>1, <4>2
    <3>2. QED
      BY <3>1 DEF RowsFollowKeys
  <2>15. WriterIsReady' /\ ArtifactsAreWhole' /\ SelectionsAreWhole'
    BY <1>3, <2>12 DEF Safe, WriterIsReady, ArtifactsAreWhole, SelectionsAreWhole
  <2>16. SelectionsHaveRows'
    <3>1. ASSUME NEW i \in 1..Len(selections), selections[i].upload \notin raced
          PROVE  uploads'[selections[i].upload] = uploads[selections[i].upload]
      <4>1. selections[i].upload \in Uploads
        BY SelectionFacts DEF Safe, TypeOK
      <4>2. uploads[selections[i].upload] # None
        BY <3>1 DEF Safe, SelectionsHaveRows
      <4>3. QED
        BY <2>5, <2>6, <4>1, <4>2
    <3>2. QED
      BY <1>3, <2>12, <3>1 DEF Safe, SelectionsHaveRows, sweepVars
  <2>17. SweepIsOfExpired' /\ CleaningIsCommitted'
    <3>1. \A u \in sweep.chosen : u \in Uploads /\ uploads'[u] = uploads[u]
      <4>1. sweep.chosen \subseteq Uploads
        BY DEF Safe, SweepIsOfExpired, Sweep
      <4>2. QED
        BY <2>5, <2>6, <4>1 DEF Safe, SweepIsOfExpired
    <3>2. SweepIsOfExpired'
      BY <2>12, <3>1 DEF Safe, SweepIsOfExpired, Committed, sweepVars
    <3>3. n \notin cleaning
      BY <1>1, <2>2 DEF Safe, CleaningIsCommitted, Uploads
    <3>4. \A u \in cleaning : u \in Nat /\ u <= opened' /\ uploads'[u] = uploads[u]
      BY <1>1, <2>2, <2>5, <3>3 DEF Safe, TypeOK, CleaningIsCommitted, Uploads
    <3>5. QED
      BY <2>12, <3>2, <3>4 DEF Safe, CleaningIsCommitted, Committed
  <2>18. QED
    BY <2>11, <2>13, <2>14, <2>15, <2>16, <2>17 DEF Safe, ClientsFollow
<1>4. QED
  BY <1>2, <1>3 DEF CreateUpload

\* A request of a send that gives an upload another row.
RowBecomes(u, row) ==
  /\ u \in Uploads /\ uploads[u] # None /\ row \in Row
  /\ row.key = uploads[u].key /\ row.expires = uploads[u].expires
  /\ uploads' = [uploads EXCEPT ![u] = row]

ArrivesWithin(u, declared) ==
  /\ received' \in [Uploads -> SUBSET AllResources]
  /\ dirs' \in [Uploads -> (SUBSET AllResources) \cup {None}]
  /\ \A v \in Uploads \ {u} : received'[v] = received[v] /\ dirs'[v] = dirs[v]
  /\ received'[u] \subseteq declared /\ (dirs'[u] = None \/ dirs'[u] \subseteq declared)

LEMMA NewRow ==
  ASSUME uploads \in [Uploads -> Row \cup {None}], NEW u, NEW row, RowBecomes(u, row)
  PROVE  /\ uploads' \in [Uploads -> Row \cup {None}] /\ uploads'[u] = row /\ row # None
         /\ \A v \in Uploads \ {u} : uploads'[v] = uploads[v]
         /\ UNCHANGED opened /\ opened \in Nat => KeysKept /\ opened' \in Nat
<1>1. row # None
  BY NoneIsNoValue DEF RowBecomes
<1>2. /\ uploads' \in [Uploads -> Row \cup {None}] /\ uploads'[u] = row
      /\ \A v \in Uploads \ {u} : uploads'[v] = uploads[v]
  BY DEF RowBecomes
<1>3. ASSUME UNCHANGED opened, opened \in Nat PROVE KeysKept /\ opened' \in Nat
  BY <1>1, <1>2, <1>3 DEF KeysKept, RowBecomes
<1>4. QED
  BY <1>1, <1>2, <1>3

LEMMA RequestIsSafe ==
  ASSUME Safe, ClientsFollow', faults' \in 0..MaxFaults, writer = None,
         UNCHANGED <<selections, artifacts, writer, cleaning, sweepVars, clock, opened>>,
         NEW u, NEW row, RowBecomes(u, row), Open(u), ~Committed(u),
         row.state \in {"manifest_received", "resources_pending"},
         row.manifest = Manifest[row.key], row.selection = uploads[u].selection,
         ArrivesWithin(u, ResourceKeys(row.manifest))
  PROVE  Safe'
<1>1. /\ uploads \in [Uploads -> Row \cup {None}] /\ Len(selections) \in Nat
      /\ opened \in 0..MaxUploads /\ sweep \in Sweep /\ cleaning \subseteq Uploads /\ clock \in Nat
  BY LimitsAssumption DEF Safe, TypeOK, SweepIsOfExpired
<1>2. /\ uploads' \in [Uploads -> Row \cup {None}] /\ uploads'[u] = row /\ row # None
      /\ \A v \in Uploads \ {u} : uploads'[v] = uploads[v]
  BY <1>1, NewRow
<1>3. u \in Uploads /\ uploads[u] # None /\ row \in Row /\ row.key = uploads[u].key
      /\ row.expires = uploads[u].expires
  BY DEF RowBecomes
<1>4. clock < row.expires /\ row.expires \in Nat
  <2>1. row.expires \in Nat
    BY <1>3 DEF Row
  <2>2. QED
    BY <1>3, <2>1 DEF Open, Committed
<1>5. TypeOK'
  <2>1. ASSUME NEW v \in Uploads, uploads'[v] # None
        PROVE  /\ uploads'[v].selection \in 0..Len(selections)
               /\ (uploads'[v].state = "committed") <=> (uploads'[v].selection > 0)
               /\ \A w \in Uploads \ {v} : uploads'[w] # None => uploads'[w].key # uploads'[v].key
    <3>1. CASE v = u
      <4>1. uploads[u].selection \in 0..Len(selections) /\ ~(uploads[u].selection > 0)
        BY <1>3 DEF Safe, TypeOK, Committed
      <4>2. QED
        BY <1>2, <1>3, <3>1, <4>1 DEF Safe, TypeOK
    <3>2. CASE v # u
      BY <1>2, <1>3, <2>1, <3>2 DEF Safe, TypeOK
    <3>3. QED
      BY <3>1, <3>2
  <2>2. QED
    BY <1>1, <1>2, <2>1 DEF Safe, TypeOK, ClientsFollow, Client, sweepVars, ArrivesWithin
<1>6. RowsFollowKeys'
  <2>1. ASSUME NEW v \in Uploads
        PROVE  /\ uploads'[v] # None =>
                    /\ v <= opened' /\ uploads'[v].expires >= UploadTTL
                    /\ uploads'[v].state = "created" \/ uploads'[v].manifest = Manifest[uploads'[v].key]
                    /\ dirs'[v] = None \/ dirs'[v] \subseteq Promised(v)'
               /\ received'[v] \subseteq Promised(v)'
    <3>1. CASE v = u
      <4>1. Promised(u)' = ResourceKeys(row.manifest)
        BY <1>2 DEF Promised
      <4>2. u <= opened /\ row.expires >= UploadTTL
        BY <1>3 DEF Safe, RowsFollowKeys
      <4>3. QED
        BY <1>2, <3>1, <4>1, <4>2 DEF ArrivesWithin
    <3>2. CASE v # u
      <4>1. /\ uploads'[v] = uploads[v] /\ dirs'[v] = dirs[v] /\ received'[v] = received[v]
            /\ Promised(v)' = Promised(v)
        BY <1>2, <3>2 DEF Promised, ArrivesWithin
      <4>2. QED
        BY <4>1 DEF Safe, RowsFollowKeys
    <3>3. QED
      BY <3>1, <3>2
  <2>2. QED
    BY <2>1 DEF RowsFollowKeys
<1>7. WriterIsReady' /\ ArtifactsAreWhole' /\ SelectionsAreWhole'
  BY DEF Safe, WriterIsReady, ArtifactsAreWhole, SelectionsAreWhole
<1>8. SelectionsHaveRows'
  <2>1. ASSUME NEW i \in 1..Len(selections), selections[i].upload \notin raced
        PROVE  uploads'[selections[i].upload] = uploads[selections[i].upload]
    <3>1. selections[i].upload \in Uploads
      BY SelectionFacts DEF Safe, TypeOK
    <3>2. selections[i].upload # u
      <4>1. SUFFICES ASSUME selections[i].upload = u PROVE FALSE
        OBVIOUS
      <4>2. uploads[u].selection = i
        BY <2>1, <4>1 DEF Safe, SelectionsHaveRows
      <4>3. QED
        BY <1>1, <1>3, <4>2 DEF Safe, TypeOK, Committed
    <3>3. QED
      BY <1>2, <3>1, <3>2
  <2>2. QED
    BY <2>1 DEF Safe, SelectionsHaveRows, sweepVars
<1>9. SweepIsOfExpired'
  <2>1. \A v \in sweep.chosen : v \in Uploads /\ uploads[v].expires <= clock
    BY <1>1 DEF Safe, SweepIsOfExpired, Sweep
  <2>2. u \notin sweep.chosen
    BY <1>1, <1>3, <1>4, <2>1
  <2>3. \A v \in sweep.chosen : uploads'[v] = uploads[v]
    BY <1>2, <2>1, <2>2
  <2>4. QED
    BY <2>3 DEF Safe, SweepIsOfExpired, Committed, sweepVars
<1>10. CleaningIsCommitted'
  <2>1. u \notin cleaning
    BY <1>3 DEF Safe, CleaningIsCommitted
  <2>2. \A v \in cleaning : uploads'[v] = uploads[v]
    BY <1>1, <1>2, <2>1
  <2>3. QED
    BY <2>2 DEF Safe, CleaningIsCommitted, Committed
<1>11. QED
  BY <1>5, <1>6, <1>7, <1>8, <1>9, <1>10 DEF Safe, ClientsFollow

LEMMA RowOfSend ==
  ASSUME Safe, NEW k \in Keys, Open(client[k].upload)
  PROVE  /\ client[k].upload \in Uploads /\ uploads[client[k].upload] \in Row
         /\ uploads[client[k].upload].key = k
<1>1. client[k].upload \in Uploads
  BY DEF Open, Safe, TypeOK, Client
<1>2. QED
  BY <1>1 DEF Open, Safe, TypeOK, ClientsFollowKeys

LEMMA ManifestIsSafe ==
  ASSUME Safe, NEW k \in Keys, PutManifest(k)
  PROVE  Safe'
<1>1. PICK u : u = client[k].upload
  OBVIOUS
<1>2. UNCHANGED <<cleaning, sweepVars, clock>>
  BY DEF PutManifest
<1>3. CASE \E code : Refused(k, code)
  BY <1>2, <1>3, SendsAreSafe
<1>4. ASSUME Open(u), uploads[u].state = "created", writer = None,
             uploads' = [uploads EXCEPT ![u].state = "manifest_received",
                                        ![u].manifest = Manifest[k]],
             Replied(k, AfterResource(k, 1)),
             UNCHANGED <<received, dirs, selections, artifacts, writer, opened>>
      PROVE  Safe'
  <2>1. PICK row : row = [uploads[u] EXCEPT !.state = "manifest_received", !.manifest = Manifest[k]]
    OBVIOUS
  <2>2. u \in Uploads /\ uploads[u] \in Row /\ uploads[u].key = k /\ uploads[u] # None
    BY <1>1, <1>4, RowOfSend DEF Open
  <2>3. {"key", "state", "expires", "manifest", "selection"} \subseteq DOMAIN uploads[u]
    BY <2>2 DEF Row
  <2>4. row \in Row
    BY <2>1, <2>2, <2>3, ManifestAssumption DEF Row
  <2>5. /\ row.key = k /\ row.state = "manifest_received" /\ row.manifest = Manifest[k]
        /\ row.expires = uploads[u].expires /\ row.selection = uploads[u].selection
    BY <2>1, <2>2, <2>3
  <2>6. RowBecomes(u, row)
    BY <1>4, <2>1, <2>2, <2>4, <2>5 DEF RowBecomes
  <2>7. received[u] = {} /\ (dirs[u] = None \/ dirs[u] \subseteq {})
    BY <1>4, <2>2 DEF Safe, RowsFollowKeys, Promised
  <2>8. ArrivesWithin(u, ResourceKeys(row.manifest))
    BY <1>4, <2>7 DEF ArrivesWithin, Safe, TypeOK
  <2>9. ClientsFollow' /\ faults' \in 0..MaxFaults
    <3>1. KeysKept /\ opened' \in Nat
      BY <1>4, <2>6, NewRow DEF Safe, TypeOK
    <3>2. client \in [Keys -> Client]
      BY DEF Safe, TypeOK, Client
    <3>3. Len(Declared[Manifest[k]]) \in Nat
      BY ManifestAssumption, DeclaredAssumption
    <3>4. 1 \in DOMAIN Declared[Manifest[k]] \/ AfterResource(k, 1).step = "commit"
      BY <3>2, <3>3, ResourceFacts, ManifestAssumption, DeclaredAssumption
    <3>5. u # None
      BY <1>4 DEF Open
    <3>6. GoesOn(k, AfterResource(k, 1))
      BY <1>1, <3>2, <3>4, <3>5, ResourceFacts DEF GoesOn
    <3>7. QED
      BY <1>4, <3>1, <3>6, ReplyGoesOn
  <2>10. ~Committed(u)
    BY <1>4 DEF Committed
  <2>11. QED
    BY <1>2, <1>4, <2>5, <2>6, <2>8, <2>9, <2>10, RequestIsSafe
<1>5. QED
  BY <1>1, <1>3, <1>4 DEF PutManifest

LEMMA ResourceIsSafe ==
  ASSUME Safe, NEW k \in Keys, PutResource(k)
  PROVE  Safe'
<1>1. PICK u, r : u = client[k].upload /\ r = Declared[Manifest[k]][client[k].next]
  OBVIOUS
<1>2. UNCHANGED <<cleaning, sweepVars, clock>>
  BY DEF PutResource
<1>3. CASE \E code : Refused(k, code)
  BY <1>2, <1>3, SendsAreSafe
<1>4. ASSUME Open(u), uploads[u].state \in {"manifest_received", "resources_pending"}, writer = None,
             dirs' = [dirs EXCEPT ![u] = FilesIn(u) \cup {r}],
             received' = [received EXCEPT ![u] = @ \cup {r}],
             uploads' = [uploads EXCEPT ![u].state = "resources_pending"],
             Replied(k, AfterResource(k, client[k].next + 1)),
             UNCHANGED <<selections, artifacts, writer, opened>>
      PROVE  Safe'
  <2>1. PICK row : row = [uploads[u] EXCEPT !.state = "resources_pending"]
    OBVIOUS
  <2>2. u \in Uploads /\ uploads[u] \in Row /\ uploads[u].key = k /\ uploads[u] # None
    BY <1>1, <1>4, RowOfSend DEF Open
  <2>3. {"key", "state", "expires", "manifest", "selection"} \subseteq DOMAIN uploads[u]
    BY <2>2 DEF Row
  <2>4. row \in Row
    BY <2>1, <2>2, <2>3 DEF Row
  <2>5. /\ row.key = k /\ row.state = "resources_pending" /\ row.manifest = uploads[u].manifest
        /\ row.expires = uploads[u].expires /\ row.selection = uploads[u].selection
    BY <2>1, <2>2, <2>3
  <2>6. row.manifest = Manifest[k]
    BY <1>4, <2>2, <2>5 DEF Safe, RowsFollowKeys
  <2>7. RowBecomes(u, row)
    BY <1>4, <2>1, <2>2, <2>4, <2>5 DEF RowBecomes
  <2>8. client[k].step = "resources" /\ client[k].next \in DOMAIN Declared[Manifest[k]]
    BY DEF PutResource, Safe, ClientsFollowKeys
  <2>9. r \in ResourceKeys(Manifest[k])
    BY <1>1, <2>8 DEF ResourceKeys
  <2>10. Manifest[k] \in Manifests /\ ResourceKeys(Manifest[k]) \subseteq AllResources
    BY ManifestAssumption DEF AllResources
  <2>11. /\ received[u] \subseteq ResourceKeys(Manifest[k])
         /\ FilesIn(u) \subseteq ResourceKeys(Manifest[k])
    BY <1>4, <2>2, <2>5, <2>6 DEF Safe, RowsFollowKeys, Promised, FilesIn
  <2>12. ArrivesWithin(u, ResourceKeys(row.manifest))
    <3>1. /\ received \in [Uploads -> SUBSET AllResources]
          /\ dirs \in [Uploads -> (SUBSET AllResources) \cup {None}]
      BY DEF Safe, TypeOK
    <3>2. /\ received'[u] = received[u] \cup {r} /\ dirs'[u] = FilesIn(u) \cup {r}
          /\ \A v \in Uploads \ {u} : received'[v] = received[v] /\ dirs'[v] = dirs[v]
      BY <1>4, <2>2, <3>1
    <3>3. received[u] \cup {r} \in SUBSET AllResources /\ FilesIn(u) \cup {r} \in SUBSET AllResources
      BY <2>9, <2>10, <2>11
    <3>4. /\ received' \in [Uploads -> SUBSET AllResources]
          /\ dirs' \in [Uploads -> (SUBSET AllResources) \cup {None}]
      BY <1>4, <3>1, <3>3
    <3>5. QED
      BY <2>6, <2>9, <2>11, <3>2, <3>4 DEF ArrivesWithin
  <2>13. ClientsFollow' /\ faults' \in 0..MaxFaults
    <3>1. KeysKept /\ opened' \in Nat
      BY <1>4, <2>7, NewRow DEF Safe, TypeOK
    <3>2. client \in [Keys -> Client]
      BY DEF Safe, TypeOK, Client
    <3>3. PICK n : n = client[k].next + 1
      OBVIOUS
    <3>4. Declared[Manifest[k]] \in Seq(Nat) /\ client[k].next \in Nat
      BY <2>8, <2>10, DeclaredAssumption
    <3>5. n \in Nat \ {0}
      BY <3>3, <3>4
    <3>6. /\ AfterResource(k, n) \in Client /\ AfterResource(k, n).upload = u
          /\ AfterResource(k, n).next = n
          /\ AfterResource(k, n).step = IF n > Len(Declared[Manifest[k]]) THEN "commit" ELSE "resources"
      BY <1>1, <3>2, <3>5, ResourceFacts
    <3>7. n \in DOMAIN Declared[Manifest[k]] \/ AfterResource(k, n).step = "commit"
      BY <3>4, <3>5, <3>6
    <3>8. u # None
      BY <1>4 DEF Open
    <3>9. GoesOn(k, AfterResource(k, n))
      BY <1>1, <3>6, <3>7, <3>8 DEF GoesOn
    <3>10. QED
      BY <1>4, <3>1, <3>3, <3>9, ReplyGoesOn
  <2>14. ~Committed(u)
    BY <1>4 DEF Committed
  <2>15. QED
    BY <1>2, <1>4, <2>5, <2>6, <2>7, <2>12, <2>13, <2>14, RequestIsSafe
<1>5. QED
  BY <1>1, <1>3, <1>4 DEF PutResource

-----------------------------------------------------------------------------
(* Commits.                                                                *)

\* A step in which some sends go on.
LEMMA EachGoesOn ==
  ASSUME ClientsFollow, opened \in Nat, opened' \in Nat, KeysKept, client' \in [Keys -> Client],
         \A k \in Keys : client'[k] = client[k] \/ GoesOn(k, client'[k])
  PROVE  ClientsFollow'
<1>1. ASSUME NEW k \in Keys
      PROVE  /\ client'[k].upload # None =>
                  /\ client'[k].upload <= opened'
                  /\ uploads'[client'[k].upload] = None \/ uploads'[client'[k].upload].key = k
             /\ client'[k].step \in {"manifest", "resources", "commit", "waiting"} =>
                  client'[k].upload # None
             /\ client'[k].step = "resources" => client'[k].next \in DOMAIN Declared[Manifest[k]]
  <2>1. ASSUME client[k].upload # None
        PROVE  /\ client[k].upload <= opened'
               /\ uploads'[client[k].upload] = None \/ uploads'[client[k].upload].key = k
    <3>1. client[k].upload \in Uploads /\ client[k].upload \in Nat
      BY <2>1 DEF ClientsFollow, Client, Uploads
    <3>2. /\ client[k].upload <= opened
          /\ uploads[client[k].upload] = None \/ uploads[client[k].upload].key = k
      BY <2>1 DEF ClientsFollow, ClientsFollowKeys
    <3>3. QED
      BY <3>1, <3>2 DEF KeysKept
  <2>2. CASE client'[k] = client[k]
    BY <2>1, <2>2 DEF ClientsFollow, ClientsFollowKeys
  <2>3. CASE GoesOn(k, client'[k])
    BY <2>1, <2>3 DEF GoesOn
  <2>4. QED
    BY <2>2, <2>3
<1>2. QED
  BY <1>1 DEF ClientsFollow, ClientsFollowKeys

LEMMA CommitIsSafe ==
  ASSUME Safe, NEW k \in Keys, Commit(k)
  PROVE  Safe'
<1>1. PICK u : u = client[k].upload
  OBVIOUS
<1>2. UNCHANGED <<cleaning, sweepVars, clock>> /\ writer = None /\ client[k].step = "commit"
  BY DEF Commit
<1>3. /\ ClientsFollow /\ opened \in Nat /\ faults \in 0..MaxFaults /\ client \in [Keys -> Client]
      /\ client[k].upload # None /\ "waiting" \in Steps /\ "done" \in Steps
  BY <1>2, LimitsAssumption DEF Safe, TypeOK, ClientsFollow, ClientsFollowKeys, Client, Steps
<1>4. CASE \E code : Refused(k, code)
  BY <1>2, <1>4, SendsAreSafe
<1>5. ASSUME Open(u), Committed(u), Replied(k, Proceed(k, "done")),
             UNCHANGED <<serverVars, writer, opened>>
      PROVE  Safe'
  <2>1. KeysKept /\ opened' \in Nat
    BY <1>3, <1>5 DEF KeysKept, serverVars
  <2>2. GoesOn(k, Proceed(k, "done"))
    BY <1>3, ClientFacts DEF GoesOn
  <2>3. ClientsFollow' /\ faults' \in 0..MaxFaults
    BY <1>5, <2>1, <2>2, ReplyGoesOn
  <2>4. QED
    BY <1>2, <1>5, <2>3, OnlySends
<1>6. ASSUME Open(u), ~Committed(u), Ready(u), writer' = [upload |-> u, step |-> "publish"],
             Becomes(k, [client[k] EXCEPT !.step = "waiting"]),
             UNCHANGED <<serverVars, opened, faults>>
      PROVE  Safe'
  <2>1. u \in Uploads /\ uploads[u] \in Row /\ uploads[u].key = k /\ uploads[u] # None
    BY <1>1, <1>6, RowOfSend DEF Open
  <2>2. KeysKept /\ opened' \in Nat
    BY <1>3, <1>6 DEF KeysKept, serverVars
  <2>3. GoesOn(k, [client[k] EXCEPT !.step = "waiting"])
    <3>1. client[k] \in Client /\ {"step", "upload", "next", "again", "disturbed"} \subseteq DOMAIN client[k]
      BY <1>3 DEF Client
    <3>2. [client[k] EXCEPT !.step = "waiting"] \in Client
      BY <1>3, <3>1 DEF Client
    <3>3. /\ [client[k] EXCEPT !.step = "waiting"].upload = client[k].upload
          /\ [client[k] EXCEPT !.step = "waiting"].step = "waiting"
      BY <3>1
    <3>4. QED
      BY <1>3, <3>2, <3>3 DEF GoesOn
  <2>4. ClientsFollow'
    BY <1>3, <1>6, <2>2, <2>3, ClientGoesOn
  <2>5. writer' \in Writer /\ writer'.upload = u /\ writer'.step = "publish" /\ writer' # None
    BY <1>6, <2>1, NoneIsNoValue DEF Writer
  <2>6. TypeOK'
    BY <1>2, <1>6, <2>4, <2>5 DEF Safe, TypeOK, ClientsFollow, Client, serverVars, sweepVars
  <2>7. RowsFollowKeys' /\ CleaningIsCommitted'
    BY <1>2, <1>6 DEF Safe, RowsFollowKeys, Promised, CleaningIsCommitted, Committed, serverVars
  <2>8. WriterIsReady'
    BY <1>6, <2>1, <2>5 DEF WriterIsReady, Ready, serverVars
  <2>9. ArtifactsAreWhole' /\ SelectionsAreWhole' /\ SelectionsHaveRows'
    BY <1>2, <1>6 DEF Safe, ArtifactsAreWhole, SelectionsAreWhole, SelectionsHaveRows, serverVars, sweepVars
  <2>10. SweepIsOfExpired'
    <3>1. u \notin sweep.chosen
      <4>1. clock < uploads[u].expires /\ uploads[u].expires \in Nat /\ clock \in Nat
        BY <1>6, <2>1, LimitsAssumption DEF Open, Committed, Row, Safe, TypeOK
      <4>2. QED
        BY <4>1 DEF Safe, SweepIsOfExpired
    <3>2. QED
      BY <1>2, <1>6, <2>5, <3>1 DEF Safe, SweepIsOfExpired, Committed, serverVars, sweepVars
  <2>11. QED
    BY <2>4, <2>6, <2>7, <2>8, <2>9, <2>10 DEF Safe, ClientsFollow
<1>7. QED
  BY <1>1, <1>4, <1>5, <1>6 DEF Commit

\* What a commit publishes has all that was declared.
LEMMA WriterFacts ==
  ASSUME Safe, writer # None
  PROVE  LET u == writer.upload
             m == uploads[u].manifest
         IN  /\ writer \in Writer /\ u \in Uploads /\ uploads[u] \in Row /\ uploads[u] # None
             /\ uploads[u].key \in Keys /\ m = Manifest[uploads[u].key] /\ m \in Manifests
             /\ ~Committed(u) /\ received[u] = ResourceKeys(m)
             /\ Copyable(u) => FilesIn(u) = ResourceKeys(m)
<1>1. PICK u, m : u = writer.upload /\ m = uploads[u].manifest
  OBVIOUS
<1>2. writer \in Writer /\ u \in Uploads /\ uploads[u] \in Row /\ uploads[u] # None /\ Ready(u)
  BY <1>1 DEF Safe, TypeOK, WriterIsReady, Writer
<1>3. uploads[u].key \in Keys
  BY <1>2 DEF Row
<1>4. m = Manifest[uploads[u].key]
  BY <1>1, <1>2 DEF Safe, RowsFollowKeys, Ready
<1>5. ~Committed(u) /\ received[u] = ResourceKeys(m) /\ Promised(u) = ResourceKeys(m)
  BY <1>1, <1>2 DEF Ready, Committed, Promised
<1>6. Copyable(u) => FilesIn(u) = ResourceKeys(m)
  <2>1. dirs[u] = None \/ dirs[u] \subseteq ResourceKeys(m)
    BY <1>2, <1>5 DEF Safe, RowsFollowKeys
  <2>2. PICK kept : kept = dirs[u]
    OBVIOUS
  <2>3. Copyable(u) => ResourceKeys(m) \subseteq FilesIn(u)
    <3>1. Copyable(u) <=> kept # None /\ ResourceKeys(m) \subseteq kept
      BY <1>5, <2>2 DEF Copyable
    <3>2. kept # None => FilesIn(u) = kept
      BY <2>2 DEF FilesIn
    <3>3. QED
      BY <3>1, <3>2
  <2>4. FilesIn(u) \subseteq ResourceKeys(m)
    <3>1. kept = None \/ kept \subseteq ResourceKeys(m)
      BY <2>1, <2>2
    <3>2. FilesIn(u) = IF kept = None THEN {} ELSE kept
      BY <2>2 DEF FilesIn
    <3>3. QED
      BY <3>1, <3>2
  <2>5. QED
    BY <2>3, <2>4
<1>7. QED
  BY <1>1, <1>2, <1>3, <1>4, <1>5, <1>6, ManifestAssumption

LEMMA PublishIsSafe ==
  ASSUME Safe, Publish
  PROVE  Safe'
<1>1. PICK u, m : u = writer.upload /\ m = uploads[u].manifest
  OBVIOUS
<1>2. writer # None /\ UNCHANGED <<uploads, received, dirs, selections, cleaning, sweepVars, clock, opened, faults>>
  BY DEF Publish
<1>3. /\ writer \in Writer /\ u \in Uploads /\ uploads[u] # None /\ m \in Manifests
      /\ Copyable(u) => FilesIn(u) = ResourceKeys(m)
  BY <1>1, <1>2, WriterFacts
<1>4. /\ ClientsFollow /\ opened \in Nat /\ client \in [Keys -> Client]
  BY LimitsAssumption DEF Safe, TypeOK, ClientsFollow, Client
<1>5. ClientsFollow'
  <2>1. \A k \in Keys : client[k] \in Client /\ Stop(k) \in Client /\ AfterLoss(k) \in Client
    BY <1>4, ClientFacts
  <2>2. client' \in [Keys -> Client]
    BY <1>4, <2>1 DEF Publish
  <2>3. \A k \in Keys : client'[k] = client[k] \/ client'[k] = Stop(k) \/ client'[k] = AfterLoss(k)
    BY <1>4 DEF Publish
  <2>4. \A k \in Keys : client'[k] = client[k] \/ GoesOn(k, client'[k])
    BY <1>4, <2>3, WaysOut DEF GoesOn
  <2>5. KeysKept /\ opened' \in Nat
    BY <1>2, <1>4 DEF KeysKept
  <2>6. QED
    BY <1>4, <2>2, <2>4, <2>5, EachGoesOn
<1>6. PICK new : new = [manifest |-> m, fingerprint |-> Fingerprint(m), files |-> FilesIn(u)]
  OBVIOUS
<1>7. \/ artifacts' = artifacts
      \/ artifacts' = artifacts \cup {new} /\ Copyable(u)
  BY <1>1, <1>6 DEF Publish
<1>8. Copyable(u) =>
        /\ new \in [manifest : Manifests, fingerprint : Seq(Nat), files : SUBSET AllResources]
        /\ new.files = ResourceKeys(new.manifest)
  <2>1. ResourceKeys(m) \subseteq AllResources /\ Fingerprint(m) \in Seq(Nat)
    BY <1>3, FingerprintFacts DEF AllResources
  <2>2. QED
    BY <1>3, <1>6, <2>1
<1>9. artifacts \subseteq artifacts'
  BY <1>7
<1>10. \/ writer' = None
       \/ writer' = [writer EXCEPT !.step = "finish"] /\ HasArtifact(m)'
  <2>1. ASSUME writer' = [writer EXCEPT !.step = "finish"] PROVE HasArtifact(m)'
    <3>1. PICK old : old = {a \in artifacts : a.manifest = m /\ a.fingerprint = Fingerprint(m)}
      OBVIOUS
    <3>2. CASE old # {}
      BY <1>9, <3>1, <3>2 DEF HasArtifact
    <3>3. CASE old = {} /\ new \in artifacts'
      BY <1>6, <3>3 DEF HasArtifact
    <3>4. writer' # None
      <4>1. writer' \in Writer
        BY <1>3, <2>1 DEF Writer
      <4>2. QED
        BY <4>1, NoneIsNoValue
    <3>5. old # {} \/ new \in artifacts'
      BY <1>1, <1>6, <3>1, <3>4 DEF Publish
    <3>6. QED
      BY <3>2, <3>3, <3>5
  <2>2. writer' = None \/ writer' = [writer EXCEPT !.step = "finish"]
    BY DEF Publish
  <2>3. QED
    BY <2>1, <2>2
<1>11. writer' # None => writer' \in Writer /\ writer'.upload = u
  BY <1>1, <1>3, <1>10 DEF Writer
<1>12. TypeOK'
  <2>1. artifacts' \subseteq [manifest : Manifests, fingerprint : Seq(Nat), files : SUBSET AllResources]
    BY <1>7, <1>8 DEF Safe, TypeOK
  <2>2. QED
    BY <1>2, <1>5, <1>11, <2>1 DEF Safe, TypeOK, ClientsFollow, Client, sweepVars
<1>13. RowsFollowKeys' /\ CleaningIsCommitted' /\ SelectionsHaveRows'
  BY <1>2 DEF Safe, RowsFollowKeys, Promised, CleaningIsCommitted, Committed, SelectionsHaveRows, sweepVars
<1>14. WriterIsReady'
  BY <1>1, <1>2, <1>10, <1>11 DEF Safe, WriterIsReady, Ready
<1>15. ArtifactsAreWhole'
  BY <1>7, <1>8 DEF Safe, ArtifactsAreWhole
<1>16. SelectionsAreWhole'
  BY <1>2, <1>9 DEF Safe, SelectionsAreWhole
<1>17. SweepIsOfExpired'
  BY <1>1, <1>2, <1>11 DEF Safe, SweepIsOfExpired, Committed, sweepVars
<1>18. QED
  BY <1>5, <1>12, <1>13, <1>14, <1>15, <1>16, <1>17 DEF Safe, ClientsFollow

LEMMA FinishIsSafe ==
  ASSUME Safe, Finish
  PROVE  Safe'
<1>1. PICK u, m, n, new, row :
        /\ u = writer.upload /\ m = uploads[u].manifest /\ n = Len(selections) + 1
        /\ new = [upload |-> u, key |-> uploads[u].key, manifest |-> m, fingerprint |-> Fingerprint(m)]
        /\ row = [uploads[u] EXCEPT !.state = "committed", !.selection = n]
  OBVIOUS
<1>2. /\ writer # None /\ writer.step = "finish" /\ writer' = None
      /\ UNCHANGED <<received, dirs, artifacts, sweepVars, client, clock, opened, faults>>
      /\ selections' = Append(selections, new) /\ cleaning' = cleaning \cup {u}
  BY <1>1 DEF Finish
<1>3. /\ u \in Uploads /\ uploads[u] \in Row /\ uploads[u] # None /\ uploads[u].key \in Keys
      /\ m = Manifest[uploads[u].key] /\ m \in Manifests /\ ~Committed(u)
      /\ received[u] = ResourceKeys(m)
  BY <1>1, <1>2, WriterFacts
<1>4. /\ uploads \in [Uploads -> Row \cup {None}] /\ selections \in Seq(Selection)
      /\ Len(selections) \in Nat /\ opened \in Nat /\ sweep \in Sweep /\ cleaning \subseteq Uploads
      /\ ClientsFollow
  BY LimitsAssumption DEF Safe, TypeOK, SweepIsOfExpired, ClientsFollow, Client
<1>5. new \in Selection /\ new.upload = u /\ new.key = uploads[u].key
      /\ new.manifest = m /\ new.fingerprint = Fingerprint(m)
  BY <1>1, <1>3, FingerprintFacts DEF Selection
<1>6. /\ selections' \in Seq(Selection) /\ Len(selections') = n /\ selections'[n] = new
      /\ \A i \in 1..Len(selections) : selections'[i] = selections[i]
      /\ 1..n = 1..Len(selections) \cup {n} /\ n \in Nat /\ n > 0
  BY <1>1, <1>2, <1>4, <1>5
<1>7. /\ row \in Row /\ row.state = "committed" /\ row.selection = n
      /\ row.key = uploads[u].key /\ row.expires = uploads[u].expires /\ row.manifest = m
  <2>1. {"key", "state", "expires", "manifest", "selection"} \subseteq DOMAIN uploads[u]
    BY <1>3 DEF Row
  <2>2. row \in Row
    BY <1>1, <1>3, <1>6, <2>1 DEF Row
  <2>3. QED
    BY <1>1, <2>1, <2>2
<1>8. RowBecomes(u, row)
  <2>1. uploads' = [uploads EXCEPT ![u].state = "committed", ![u].selection = n]
    BY <1>1, <1>6 DEF Finish
  <2>2. QED
    BY <1>1, <1>3, <1>4, <1>7, <2>1 DEF RowBecomes
<1>9. /\ uploads' \in [Uploads -> Row \cup {None}] /\ uploads'[u] = row /\ row # None
      /\ \A v \in Uploads \ {u} : uploads'[v] = uploads[v]
      /\ KeysKept /\ opened' \in Nat
  BY <1>2, <1>4, <1>8, NewRow
<1>10. ClientsFollow'
  BY <1>2, <1>4, <1>9, EachGoesOn DEF ClientsFollow
<1>11. TypeOK'
  <2>1. ASSUME NEW v \in Uploads, uploads'[v] # None
        PROVE  /\ uploads'[v].selection \in 0..Len(selections')
               /\ (uploads'[v].state = "committed") <=> (uploads'[v].selection > 0)
               /\ \A w \in Uploads \ {v} : uploads'[w] # None => uploads'[w].key # uploads'[v].key
    <3>1. CASE v = u
      BY <1>3, <1>6, <1>7, <1>9, <3>1 DEF Safe, TypeOK
    <3>2. CASE v # u
      <4>1. uploads'[v].selection \in 0..Len(selections')
        BY <1>1, <1>4, <1>6, <1>9, <2>1, <3>2 DEF Safe, TypeOK
      <4>2. uploads'[v] = uploads[v] /\ uploads'[v].key # row.key
        BY <1>3, <1>7, <1>9, <2>1, <3>2 DEF Safe, TypeOK
      <4>3. (uploads'[v].state = "committed") <=> (uploads'[v].selection > 0)
        BY <2>1, <4>2 DEF Safe, TypeOK
      <4>4. ASSUME NEW w \in Uploads \ {v}, uploads'[w] # None PROVE uploads'[w].key # uploads'[v].key
        <5>1. CASE w = u
          BY <1>9, <4>2, <5>1
        <5>2. CASE w # u
          BY <1>9, <2>1, <4>2, <4>4, <5>2 DEF Safe, TypeOK
        <5>3. QED
          BY <5>1, <5>2
      <4>5. QED
        BY <4>1, <4>3, <4>4
    <3>3. QED
      BY <3>1, <3>2
  <2>2. QED
    BY <1>2, <1>3, <1>4, <1>6, <1>9, <1>10, <2>1 DEF Safe, TypeOK, ClientsFollow, Client, sweepVars
<1>12. RowsFollowKeys'
  <2>1. ASSUME NEW v \in Uploads
        PROVE  /\ uploads'[v] # None =>
                    /\ v <= opened' /\ uploads'[v].expires >= UploadTTL
                    /\ uploads'[v].state = "created" \/ uploads'[v].manifest = Manifest[uploads'[v].key]
                    /\ dirs'[v] = None \/ dirs'[v] \subseteq Promised(v)'
               /\ received'[v] \subseteq Promised(v)'
    <3>1. dirs'[v] = dirs[v] /\ received'[v] = received[v]
      BY <1>2
    <3>2. CASE v = u
      <4>1. Promised(u)' = ResourceKeys(m)
        BY <1>7, <1>9 DEF Promised
      <4>2. Promised(u) \subseteq ResourceKeys(m)
        BY <1>1 DEF Promised
      <4>3. u <= opened' /\ row.expires >= UploadTTL /\ (dirs[u] = None \/ dirs[u] \subseteq Promised(u))
        BY <1>2, <1>3, <1>7 DEF Safe, RowsFollowKeys
      <4>4. QED
        BY <1>3, <1>7, <1>9, <3>1, <3>2, <4>1, <4>2, <4>3
    <3>3. CASE v # u
      <4>1. uploads'[v] = uploads[v] /\ Promised(v)' = Promised(v)
        BY <1>9, <3>3 DEF Promised
      <4>2. QED
        BY <1>2, <3>1, <4>1 DEF Safe, RowsFollowKeys
    <3>4. QED
      BY <3>2, <3>3
  <2>2. QED
    BY <2>1 DEF RowsFollowKeys
<1>13. WriterIsReady' /\ ArtifactsAreWhole'
  BY <1>2 DEF Safe, WriterIsReady, ArtifactsAreWhole
<1>14. SelectionsAreWhole'
  <2>1. PICK a \in artifacts : a.manifest = m /\ a.fingerprint = Fingerprint(m)
    BY <1>1, <1>2 DEF Safe, WriterIsReady, HasArtifact
  <2>2. a.files = ResourceKeys(m)
    BY <2>1 DEF Safe, ArtifactsAreWhole
  <2>3. QED
    BY <1>2, <1>5, <1>6, <2>1, <2>2 DEF Safe, SelectionsAreWhole
<1>15. SelectionsHaveRows'
  <2>1. ASSUME NEW i \in 1..Len(selections), selections[i].upload \notin raced
        PROVE  uploads'[selections[i].upload] = uploads[selections[i].upload]
    <3>1. selections[i].upload \in Uploads
      BY <1>4, SelectionFacts
    <3>2. selections[i].upload # u
      <4>1. SUFFICES ASSUME selections[i].upload = u PROVE FALSE
        OBVIOUS
      <4>2. uploads[u].selection = i
        BY <2>1, <4>1 DEF Safe, SelectionsHaveRows
      <4>3. QED
        BY <1>3, <4>2 DEF Safe, TypeOK, Committed
    <3>3. QED
      BY <1>9, <3>1, <3>2
  <2>2. raced' = raced
    BY <1>2 DEF sweepVars
  <2>3. ASSUME NEW i \in 1..n, selections'[i].upload \notin raced
        PROVE  LET r == uploads'[selections'[i].upload]
               IN  r # None /\ r.key = selections'[i].key /\ r.selection = i
    <3>1. CASE i = n
      <4>1. selections'[i] = new
        BY <1>6, <3>1
      <4>2. QED
        BY <1>5, <1>7, <1>9, <3>1, <4>1
    <3>2. CASE i # n
      <4>1. i \in 1..Len(selections) /\ selections'[i] = selections[i]
        BY <1>6, <3>2
      <4>2. QED
        BY <2>1, <2>3, <4>1 DEF Safe, SelectionsHaveRows
    <3>3. QED
      BY <3>1, <3>2
  <2>4. QED
    BY <1>6, <2>2, <2>3 DEF SelectionsHaveRows
<1>16. SweepIsOfExpired'
  <2>1. sweep' = sweep /\ raced' = raced /\ clock' = clock
    BY <1>2 DEF sweepVars
  <2>2. u \in sweep.chosen => u \in raced
    BY <1>1, <1>2 DEF Safe, SweepIsOfExpired
  <2>3. \A v \in sweep.chosen : v \in Uploads
    BY <1>4 DEF Sweep
  <2>4. QED
    BY <1>2, <1>7, <1>9, <2>1, <2>2, <2>3 DEF Safe, SweepIsOfExpired, Committed
<1>17. CleaningIsCommitted'
  <2>1. u <= opened
    BY <1>3 DEF Safe, RowsFollowKeys
  <2>2. QED
    BY <1>2, <1>4, <1>7, <1>9, <2>1 DEF Safe, CleaningIsCommitted, Committed
<1>18. QED
  BY <1>10, <1>11, <1>12, <1>13, <1>14, <1>15, <1>16, <1>17 DEF Safe, ClientsFollow
-----------------------------------------------------------------------------
(* The rest: cleaning up, restarts, sweeps and time.                       *)

LEMMA CleanUpIsSafe ==
  ASSUME Safe, NEW u \in Uploads, CleanUp(u)
  PROVE  Safe'
<1>1. /\ UNCHANGED <<uploads, received, selections, artifacts, writer, sweepVars, clock, opened, faults>>
      /\ cleaning' = cleaning \ {u}
  BY DEF CleanUp
<1>2. /\ ClientsFollow /\ client \in [Keys -> Client] /\ opened \in Nat
      /\ dirs \in [Uploads -> (SUBSET AllResources) \cup {None}] /\ "done" \in Steps
  BY LimitsAssumption DEF Safe, TypeOK, ClientsFollow, Client, Steps
<1>3. ClientsFollow'
  <2>1. \A k \in Keys : client[k] \in Client /\ Proceed(k, "done") \in Client
    BY <1>2, ClientFacts
  <2>2. client' \in [Keys -> Client]
    BY <2>1 DEF CleanUp
  <2>3. \A k \in Keys : client'[k] = client[k] \/ client'[k] = Proceed(k, "done")
    BY DEF CleanUp
  <2>4. \A k \in Keys : GoesOn(k, Proceed(k, "done"))
    BY <1>2, ClientFacts DEF GoesOn
  <2>5. KeysKept /\ opened' \in Nat
    BY <1>1, <1>2 DEF KeysKept
  <2>6. QED
    BY <1>2, <2>2, <2>3, <2>4, <2>5, EachGoesOn
<1>4. /\ dirs' \in [Uploads -> (SUBSET AllResources) \cup {None}]
      /\ \A v \in Uploads : dirs'[v] = dirs[v] \/ dirs'[v] = None
  BY <1>2 DEF CleanUp
<1>5. TypeOK'
  BY <1>1, <1>3, <1>4 DEF Safe, TypeOK, ClientsFollow, Client, sweepVars
<1>6. RowsFollowKeys' /\ WriterIsReady'
  BY <1>1, <1>4 DEF Safe, RowsFollowKeys, Promised, WriterIsReady, Ready, HasArtifact
<1>7. ArtifactsAreWhole' /\ SelectionsAreWhole' /\ SelectionsHaveRows'
  BY <1>1 DEF Safe, ArtifactsAreWhole, SelectionsAreWhole, SelectionsHaveRows, sweepVars
<1>8. SweepIsOfExpired' /\ CleaningIsCommitted'
  BY <1>1 DEF Safe, SweepIsOfExpired, CleaningIsCommitted, Committed, sweepVars
<1>9. QED
  BY <1>3, <1>5, <1>6, <1>7, <1>8 DEF Safe, ClientsFollow

LEMMA IdleIsSweep == Idle \in Sweep /\ Idle.step = "idle" /\ Idle.chosen = {} /\ Idle.cleaned = {}
BY DEF Idle, Sweep

LEMMA CrashIsSafe ==
  ASSUME Safe, Crash
  PROVE  Safe'
<1>1. /\ UNCHANGED <<uploads, received, dirs, selections, artifacts, clock, opened, raced>>
      /\ writer' = None /\ cleaning' = {} /\ sweep' = Idle /\ faults < MaxFaults /\ faults' = faults + 1
  BY DEF Crash, serverVars
<1>2. /\ ClientsFollow /\ client \in [Keys -> Client] /\ opened \in Nat
      /\ faults \in 0..MaxFaults /\ MaxFaults \in Nat
  BY LimitsAssumption DEF Safe, TypeOK, ClientsFollow, Client
<1>3. ClientsFollow'
  <2>1. \A k \in Keys : client[k] \in Client /\ AfterLoss(k) \in Client
    BY <1>2, ClientFacts
  <2>2. client' \in [Keys -> Client]
    BY <2>1 DEF Crash
  <2>3. \A k \in Keys : client'[k] = client[k] \/ client'[k] = AfterLoss(k)
    BY DEF Crash
  <2>4. KeysKept /\ opened' \in Nat
    BY <1>1, <1>2 DEF KeysKept
  <2>5. QED
    BY <1>2, <2>2, <2>3, <2>4, WaysOut, EachGoesOn
<1>4. TypeOK'
  BY <1>1, <1>2, <1>3, IdleIsSweep DEF Safe, TypeOK, ClientsFollow, Client
<1>5. RowsFollowKeys' /\ WriterIsReady' /\ ArtifactsAreWhole'
  BY <1>1 DEF Safe, RowsFollowKeys, Promised, WriterIsReady, ArtifactsAreWhole
<1>6. SelectionsAreWhole' /\ SelectionsHaveRows'
  BY <1>1 DEF Safe, SelectionsAreWhole, SelectionsHaveRows
<1>7. SweepIsOfExpired' /\ CleaningIsCommitted'
  BY <1>1, IdleIsSweep DEF SweepIsOfExpired, CleaningIsCommitted
<1>8. QED
  BY <1>3, <1>4, <1>5, <1>6, <1>7 DEF Safe, ClientsFollow

LEMMA SelectIsSafe ==
  ASSUME Safe, SweepSelects
  PROVE  Safe'
<1>1. UNCHANGED <<uploads, received, dirs, selections, artifacts, writer, cleaning, client, clock, opened, faults>>
  BY DEF SweepSelects, serverVars
<1>2. PICK old : old = {u \in Uploads : Expired(u)}
  OBVIOUS
<1>3. sweep' = [step |-> "clean", chosen |-> old, cleaned |-> {}]
  BY <1>2 DEF SweepSelects
<1>4. /\ raced \subseteq raced' /\ raced' \subseteq Uploads
      /\ \A u \in old : writer # None /\ writer.upload = u => u \in raced'
  BY <1>2 DEF SweepSelects, Safe, TypeOK
<1>5. sweep' \in Sweep /\ sweep'.chosen = old /\ sweep'.cleaned = {} /\ sweep'.step = "clean"
  BY <1>2, <1>3 DEF Sweep
<1>6. TypeOK'
  BY <1>1, <1>4, <1>5 DEF Safe, TypeOK
<1>7. RowsFollowKeys' /\ ClientsFollowKeys' /\ WriterIsReady' /\ ArtifactsAreWhole'
  BY <1>1 DEF Safe, RowsFollowKeys, Promised, ClientsFollowKeys, WriterIsReady, Ready, HasArtifact,
              ArtifactsAreWhole
<1>8. SelectionsAreWhole' /\ CleaningIsCommitted'
  BY <1>1 DEF Safe, SelectionsAreWhole, CleaningIsCommitted, Committed
<1>9. SelectionsHaveRows'
  BY <1>1, <1>4 DEF Safe, SelectionsHaveRows
<1>10. SweepIsOfExpired'
  BY <1>1, <1>2, <1>4, <1>5 DEF SweepIsOfExpired, Expired, Committed
<1>11. QED
  BY <1>6, <1>7, <1>8, <1>9, <1>10 DEF Safe

LEMMA CleanIsSafe ==
  ASSUME Safe, SweepCleans
  PROVE  Safe'
<1>1. UNCHANGED <<uploads, received, selections, artifacts, writer, cleaning, client, clock, opened, faults, raced>>
  BY DEF SweepCleans
<1>2. PICK done \in SUBSET sweep.chosen :
        /\ sweep' = [sweep EXCEPT !.step = "delete", !.cleaned = done]
        /\ dirs' = [u \in Uploads |-> IF u \in done THEN None ELSE dirs[u]]
  BY DEF SweepCleans
<1>3. sweep \in Sweep /\ {"step", "chosen", "cleaned"} \subseteq DOMAIN sweep /\ done \subseteq Uploads
  BY DEF Safe, SweepIsOfExpired, Sweep
<1>4. sweep' \in Sweep /\ sweep'.chosen = sweep.chosen /\ sweep'.cleaned = done /\ sweep'.step = "delete"
  <2>1. sweep' \in Sweep
    BY <1>2, <1>3 DEF Sweep
  <2>2. QED
    BY <1>2, <1>3, <2>1
<1>5. /\ dirs' \in [Uploads -> (SUBSET AllResources) \cup {None}]
      /\ \A v \in Uploads : dirs'[v] = dirs[v] \/ dirs'[v] = None
  BY <1>2 DEF Safe, TypeOK
<1>6. TypeOK'
  BY <1>1, <1>2, <1>4, <1>5 DEF Safe, TypeOK
<1>7. RowsFollowKeys' /\ ClientsFollowKeys' /\ WriterIsReady' /\ ArtifactsAreWhole'
  BY <1>1, <1>5 DEF Safe, RowsFollowKeys, Promised, ClientsFollowKeys, WriterIsReady, Ready, HasArtifact,
              ArtifactsAreWhole
<1>8. SelectionsAreWhole' /\ CleaningIsCommitted' /\ SelectionsHaveRows'
  BY <1>1 DEF Safe, SelectionsAreWhole, CleaningIsCommitted, Committed, SelectionsHaveRows
<1>9. SweepIsOfExpired'
  BY <1>1, <1>4 DEF Safe, SweepIsOfExpired, Committed
<1>10. QED
  BY <1>6, <1>7, <1>8, <1>9 DEF Safe

LEMMA DeleteIsSafe ==
  ASSUME Safe, SweepDeletes
  PROVE  Safe'
<1>1. /\ UNCHANGED <<dirs, selections, artifacts, writer, cleaning, client, clock, opened, faults, raced>>
      /\ writer = None /\ sweep' = Idle
  BY DEF SweepDeletes
<1>2. PICK gone : gone = sweep.cleaned
  OBVIOUS
<1>3. /\ uploads \in [Uploads -> Row \cup {None}] /\ received \in [Uploads -> SUBSET AllResources]
      /\ opened \in Nat /\ ClientsFollow /\ client \in [Keys -> Client] /\ gone \subseteq sweep.chosen
  BY <1>2, LimitsAssumption DEF Safe, TypeOK, ClientsFollow, Client
<1>4. /\ uploads' \in [Uploads -> Row \cup {None}] /\ received' \in [Uploads -> SUBSET AllResources]
      /\ \A u \in Uploads : /\ u \in gone => uploads'[u] = None /\ received'[u] = {}
                            /\ u \notin gone => uploads'[u] = uploads[u] /\ received'[u] = received[u]
  BY <1>2, <1>3 DEF SweepDeletes
<1>5. KeysKept /\ opened' \in Nat
  BY <1>1, <1>3, <1>4 DEF KeysKept
<1>6. ClientsFollow'
  BY <1>1, <1>3, <1>5, EachGoesOn
<1>7. TypeOK'
  <2>1. ASSUME NEW v \in Uploads, uploads'[v] # None
        PROVE  /\ uploads'[v].selection \in 0..Len(selections)
               /\ (uploads'[v].state = "committed") <=> (uploads'[v].selection > 0)
               /\ \A w \in Uploads \ {v} : uploads'[w] # None => uploads'[w].key # uploads'[v].key
    BY <1>4, <2>1 DEF Safe, TypeOK
  <2>2. QED
    BY <1>1, <1>4, <1>6, <2>1, IdleIsSweep DEF Safe, TypeOK, ClientsFollow, Client
<1>8. RowsFollowKeys'
  <2>1. ASSUME NEW v \in Uploads
        PROVE  /\ uploads'[v] # None =>
                    /\ v <= opened' /\ uploads'[v].expires >= UploadTTL
                    /\ uploads'[v].state = "created" \/ uploads'[v].manifest = Manifest[uploads'[v].key]
                    /\ dirs'[v] = None \/ dirs'[v] \subseteq Promised(v)'
               /\ received'[v] \subseteq Promised(v)'
    <3>1. CASE v \in gone
      BY <1>4, <3>1
    <3>2. CASE v \notin gone
      <4>1. uploads'[v] = uploads[v] /\ received'[v] = received[v] /\ Promised(v)' = Promised(v)
        BY <1>4, <3>2 DEF Promised
      <4>2. QED
        BY <1>1, <4>1 DEF Safe, RowsFollowKeys
    <3>3. QED
      BY <3>1, <3>2
  <2>2. QED
    BY <2>1 DEF RowsFollowKeys
<1>9. WriterIsReady' /\ ArtifactsAreWhole' /\ SelectionsAreWhole'
  BY <1>1 DEF Safe, WriterIsReady, ArtifactsAreWhole, SelectionsAreWhole
<1>10. SelectionsHaveRows'
  <2>1. ASSUME NEW i \in 1..Len(selections), selections[i].upload \notin raced
        PROVE  uploads'[selections[i].upload] = uploads[selections[i].upload]
    <3>1. selections[i].upload \in Uploads
      BY SelectionFacts DEF Safe, TypeOK
    <3>2. selections[i].upload \notin gone
      <4>1. SUFFICES ASSUME selections[i].upload \in sweep.chosen PROVE FALSE
        BY <1>3
      <4>2. ~Committed(selections[i].upload)
        BY <2>1, <4>1 DEF Safe, SweepIsOfExpired
      <4>3. uploads[selections[i].upload] # None /\ uploads[selections[i].upload].selection = i
        BY <2>1 DEF Safe, SelectionsHaveRows
      <4>4. QED
        BY <3>1, <4>2, <4>3 DEF Safe, TypeOK, Committed
    <3>3. QED
      BY <1>4, <3>1, <3>2
  <2>2. QED
    BY <1>1, <2>1 DEF Safe, SelectionsHaveRows
<1>11. SweepIsOfExpired' /\ CleaningIsCommitted'
  BY <1>1, <1>4, IdleIsSweep DEF Safe, TypeOK, SweepIsOfExpired, CleaningIsCommitted, Committed
<1>12. QED
  BY <1>6, <1>7, <1>8, <1>9, <1>10, <1>11 DEF Safe, ClientsFollow

LEMMA TickFacts ==
  ASSUME Safe, Tick, NEW k \in Keys
  PROVE  /\ client'[k] \in Client
         /\ client'[k].step = client[k].step /\ client'[k].upload = client[k].upload
         /\ client'[k].next = client[k].next
         /\ client'[k].disturbed = FALSE => client[k].disturbed = FALSE /\ ~Expires(k)
<1>1. PICK c : c = client[k]
  OBVIOUS
<1>2. c \in Client /\ {"step", "upload", "next", "again", "disturbed"} \subseteq DOMAIN c
  BY <1>1 DEF Safe, TypeOK, Client
<1>3. client'[k] = [c EXCEPT !.disturbed = c.disturbed \/ Expires(k)]
  BY <1>1 DEF Tick
<1>4. PICK b \in BOOLEAN : b = (c.disturbed \/ Expires(k))
  OBVIOUS
<1>5. client'[k] = [c EXCEPT !.disturbed = b]
  BY <1>3, <1>4
<1>6. [c EXCEPT !.disturbed = b] \in Client
  BY <1>2 DEF Client
<1>7. /\ [c EXCEPT !.disturbed = b].step = c.step /\ [c EXCEPT !.disturbed = b].upload = c.upload
      /\ [c EXCEPT !.disturbed = b].next = c.next /\ [c EXCEPT !.disturbed = b].disturbed = b
  BY <1>2
<1>8. c.disturbed \in BOOLEAN
  BY <1>2 DEF Client
<1>9. b = FALSE => c.disturbed = FALSE /\ ~Expires(k)
  BY <1>4, <1>8
<1>10. QED
  BY <1>1, <1>5, <1>6, <1>7, <1>9

LEMMA TickIsSafe ==
  ASSUME Safe, Tick
  PROVE  Safe'
<1>1. /\ UNCHANGED <<uploads, received, dirs, selections, artifacts, writer, cleaning, sweep, raced,
                     opened, faults>>
      /\ clock < MaxClock /\ clock' = clock + 1 /\ clock \in 0..MaxClock /\ MaxClock \in Nat
  BY LimitsAssumption DEF Tick, serverVars, sweepVars, Safe, TypeOK
<1>2. client' \in [Keys -> Client]
  <2>1. \A k \in Keys : client'[k] \in Client
    BY TickFacts
  <2>2. client' = [k \in Keys |-> client'[k]]
    BY DEF Tick
  <2>3. QED
    BY <2>1, <2>2
<1>3. TypeOK'
  BY <1>1, <1>2 DEF Safe, TypeOK, Client
<1>4. ClientsFollowKeys'
  BY <1>1, TickFacts DEF Safe, ClientsFollowKeys
<1>5. RowsFollowKeys' /\ WriterIsReady' /\ ArtifactsAreWhole'
  BY <1>1 DEF Safe, RowsFollowKeys, Promised, WriterIsReady, Ready, HasArtifact, ArtifactsAreWhole
<1>6. SelectionsAreWhole' /\ CleaningIsCommitted' /\ SelectionsHaveRows'
  BY <1>1 DEF Safe, SelectionsAreWhole, CleaningIsCommitted, Committed, SelectionsHaveRows
<1>7. SweepIsOfExpired'
  <2>1. \A u \in sweep.chosen : uploads[u].expires \in Nat
    BY DEF Safe, TypeOK, SweepIsOfExpired, Sweep, Row
  <2>2. QED
    BY <1>1, <2>1 DEF Safe, SweepIsOfExpired, Committed
<1>8. QED
  BY <1>3, <1>4, <1>5, <1>6, <1>7 DEF Safe

-----------------------------------------------------------------------------
(* Undisturbed sends.                                                      *)

LEMMA UndisturbedFacts ==
  ASSUME Safe, Sends, NEW k \in Keys, Undisturbed(k)
  PROVE  /\ LiveRows(k) /\ OnCourse(k) /\ Accepted(k)
         /\ \A u \in Sessions(k) : Open(u) /\ ~Expired(u) /\ u \notin sweep.chosen
<1>1. LiveRows(k) /\ OnCourse(k) /\ Accepted(k)
  BY DEF Sends, OnTrack
<1>2. ASSUME NEW u \in Sessions(k) PROVE Open(u) /\ ~Expired(u) /\ u \notin sweep.chosen
  <2>1. u \in Uploads /\ uploads[u] # None /\ uploads[u].key = k /\ u # None
    BY NoneIsNoValue DEF Sessions
  <2>2. ~Committed(u) => clock < uploads[u].expires
    BY <1>1 DEF LiveRows
  <2>3. clock \in Nat /\ uploads[u].expires \in Nat
    BY <2>1, LimitsAssumption DEF Safe, TypeOK, Row
  <2>4. u \notin sweep.chosen
    BY <2>1 DEF Sends, SweepSpares
  <2>5. QED
    BY <2>1, <2>2, <2>3, <2>4 DEF Open, Expired, Committed
<1>3. QED
  BY <1>1, <1>2

\* A send whose rows a step leaves alone.
RowsKept(k) ==
  \A u \in Uploads :
    \/ uploads[u] # None /\ uploads[u].key = k
    \/ uploads'[u] # None /\ uploads'[u].key = k
    => /\ uploads'[u] = uploads[u] /\ received'[u] = received[u]
       /\ dirs'[u] = dirs[u] \/ Committed(u)

LEMMA LiveStays ==
  ASSUME NEW k, RowsKept(k), clock' = clock, LiveRows(k)
  PROVE  LiveRows(k)'
<1>1. ASSUME NEW u \in Uploads, uploads'[u] # None, uploads'[u].key = k, ~Committed(u)'
      PROVE  clock' < uploads'[u].expires /\ Copyable(u)'
  <2>1. uploads'[u] = uploads[u] /\ received'[u] = received[u] /\ (dirs'[u] = dirs[u] \/ Committed(u))
    BY <1>1 DEF RowsKept
  <2>2. ~Committed(u) /\ u \in Sessions(k)
    BY <1>1, <2>1 DEF Committed, Sessions
  <2>3. clock < uploads[u].expires /\ Copyable(u)
    BY <2>2 DEF LiveRows
  <2>4. QED
    BY <2>1, <2>2, <2>3 DEF Copyable
<1>2. QED
  BY <1>1 DEF LiveRows, Sessions

LEMMA CourseStays ==
  ASSUME Safe, NEW k \in Keys, RowsKept(k), OnCourse(k),
         client'[k].step = client[k].step, client'[k].upload = client[k].upload,
         client'[k].next = client[k].next
  PROVE  OnCourse(k)'
<1>1. PICK u : u = client[k].upload
  OBVIOUS
<1>2. client[k].step \in {"manifest", "resources", "commit", "waiting"} =>
        uploads[u] # None /\ uploads'[u] = uploads[u] /\ received'[u] = received[u]
  <2>1. SUFFICES ASSUME client[k].step \in {"manifest", "resources", "commit", "waiting"}
                 PROVE  uploads[u] # None /\ uploads'[u] = uploads[u] /\ received'[u] = received[u]
    OBVIOUS
  <2>2. u \in Uploads
    BY <1>1, <2>1 DEF Safe, TypeOK, ClientsFollowKeys
  <2>3. uploads[u] # None
    BY <1>1, <2>1 DEF OnCourse
  <2>4. uploads[u].key = k
    BY <1>1, <2>2, <2>3, NoneIsNoValue DEF Safe, ClientsFollowKeys
  <2>5. QED
    BY <2>2, <2>3, <2>4 DEF RowsKept
<1>3. client[k].step = "ready" => \A v \in Uploads : uploads'[v] = None \/ uploads'[v].key # k
  BY DEF OnCourse, RowsKept
<1>4. client[k].step = "create" =>
        \A v \in Uploads : uploads'[v] # None /\ uploads'[v].key = k =>
          uploads'[v].state = "created" /\ received'[v] = {}
  BY DEF OnCourse, RowsKept
<1>5. QED
  BY <1>1, <1>2, <1>3, <1>4 DEF OnCourse, Arrived, Committed, Ready

\* What happens to the rows of one key does not disturb the other sends.
KeptForOthers(k) ==
  \A u \in Uploads :
    \/ uploads'[u] = uploads[u] /\ received'[u] = received[u] /\ dirs'[u] = dirs[u]
    \/ /\ uploads'[u] # None /\ uploads'[u].key = k
       /\ uploads[u] = None \/ uploads[u].key = k

\* A request of one send.
LEMMA OneSendSteps ==
  ASSUME Safe, Safe', Sends, NEW k \in Keys, KeptForOthers(k), sweep' = sweep, clock' = clock,
         \A l \in Keys \ {k} : client'[l] = client[l],
         \A l \in Keys \ {k} : \A code : <<l, code>> \in refusals' => <<l, code>> \in refusals,
         Undisturbed(k)' => Undisturbed(k) /\ LiveRows(k)' /\ OnCourse(k)' /\ Accepted(k)'
  PROVE  Sends'
<1>1. ASSUME NEW l \in Keys \ {k} PROVE RowsKept(l)
  BY DEF KeptForOthers, RowsKept
<1>2. ASSUME NEW l \in Keys, Undisturbed(l)'
      PROVE  Undisturbed(l) /\ LiveRows(l)' /\ OnCourse(l)' /\ Accepted(l)'
  <2>1. CASE l = k
    BY <1>2, <2>1
  <2>2. CASE l # k
    <3>1. Undisturbed(l)
      BY <1>2, <2>2 DEF Undisturbed, Verifies, Fingerprint, InKeyOrder
    <3>2. LiveRows(l) /\ OnCourse(l) /\ Accepted(l)
      BY <3>1, UndisturbedFacts
    <3>3. LiveRows(l)' /\ OnCourse(l)'
      BY <1>1, <2>2, <3>2, LiveStays, CourseStays
    <3>4. Accepted(l)'
      BY <2>2, <3>2 DEF Accepted
    <3>5. QED
      BY <3>1, <3>3, <3>4
  <2>3. QED
    BY <2>1, <2>2
<1>3. ASSUME NEW u \in sweep'.chosen PROVE ~Undisturbed(uploads[u].key)'
  <2>1. u \in sweep.chosen /\ u \in Uploads /\ uploads[u] # None /\ uploads'[u] # None
    BY <1>3 DEF Safe, SweepIsOfExpired, Sweep
  <2>2. uploads[u].key \in Keys /\ uploads'[u].key \in Keys
    BY <2>1 DEF Safe, TypeOK, Row
  <2>3. uploads'[u].key = uploads[u].key
    BY <2>1 DEF KeptForOthers
  <2>4. ~Undisturbed(uploads[u].key)
    BY <2>1 DEF Sends, SweepSpares
  <2>5. PICK l : l = uploads[u].key
    OBVIOUS
  <2>6. ~Undisturbed(l)'
    BY <1>2, <2>2, <2>4, <2>5
  <2>7. QED
    BY <2>3, <2>5, <2>6
<1>4. QED
  BY <1>2, <1>3 DEF Sends, OnTrack, SweepSpares

\* A step of the server that leaves the rows alone.
LEMMA AllSendsStay ==
  ASSUME Safe, Sends, uploads' = uploads, sweep'.chosen \subseteq sweep.chosen,
         \A k \in Keys : Undisturbed(k)' =>
           Undisturbed(k) /\ LiveRows(k)' /\ OnCourse(k)' /\ Accepted(k)'
  PROVE  Sends'
<1>1. ASSUME NEW u \in sweep'.chosen PROVE ~Undisturbed(uploads[u].key)'
  <2>1. u \in sweep.chosen /\ u \in Uploads /\ uploads[u] # None
    BY <1>1 DEF Safe, SweepIsOfExpired, Sweep
  <2>2. PICK k : k = uploads[u].key
    OBVIOUS
  <2>3. k \in Keys
    BY <2>1, <2>2 DEF Safe, TypeOK, Row
  <2>4. ~Undisturbed(k)
    BY <2>1, <2>2 DEF Sends, SweepSpares
  <2>5. ~Undisturbed(k)'
    BY <2>3, <2>4
  <2>6. QED
    BY <2>2, <2>5
<1>2. QED
  BY <1>1 DEF Sends, OnTrack, SweepSpares

\* Only disturbed sends, or those whose resources are not in key order, are
\* refused.
LEMMA RefusedStays ==
  ASSUME Safe, Safe', Sends, NEW k \in Keys, NEW code, Refused(k, code),
         UNCHANGED <<cleaning, sweepVars, clock>>, ~Undisturbed(k)
  PROVE  Sends'
<1>1. /\ UNCHANGED <<uploads, received, dirs, sweep, clock>> /\ client \in [Keys -> Client]
      /\ client' = [client EXCEPT ![k] = Stop(k)] /\ refusals' = refusals \cup {<<k, code>>}
  BY DEF Refused, Becomes, serverVars, sweepVars, Safe, TypeOK, Client
<1>2. KeptForOthers(k)
  BY <1>1 DEF KeptForOthers
<1>3. \A l \in Keys \ {k} : client'[l] = client[l]
  BY <1>1
<1>4. \A l \in Keys \ {k} : \A c : <<l, c>> \in refusals' => <<l, c>> \in refusals
  BY <1>1
<1>5. client'[k].disturbed = client[k].disturbed
  BY <1>1, ClientFacts
<1>6. ~Undisturbed(k)'
  BY <1>5 DEF Undisturbed, Verifies, Fingerprint, InKeyOrder
<1>7. QED
  BY <1>1, <1>2, <1>3, <1>4, <1>6, OneSendSteps

LEMMA ReplyFacts ==
  ASSUME Safe, NEW k \in Keys, NEW c, Replied(k, c)
  PROVE  /\ \A l \in Keys \ {k} : client'[l] = client[l]
         /\ client'[k] = c \/ client'[k] = AfterLoss(k)
<1>1. client \in [Keys -> Client]
  BY DEF Safe, TypeOK, Client
<1>2. QED
  BY <1>1 DEF Replied, Becomes

\* A request that is answered, of a send that stays on course, or whose answer
\* gets lost.
LEMMA AnsweredStays ==
  ASSUME Safe, Safe', Sends, NEW k \in Keys, NEW c, Replied(k, c), KeptForOthers(k),
         UNCHANGED <<sweep, clock, refusals>>, c.disturbed = client[k].disturbed,
         Undisturbed(k) => LiveRows(k)',
         Undisturbed(k) /\ client'[k] = c => OnCourse(k)',
         /\ Undisturbed(k) /\ client'[k] = AfterLoss(k)
         /\ \/ client[k].step = "create" /\ client'[k].step = "create"
            \/ client[k].step \in {"commit", "waiting"} /\ client'[k].step = "commit"
         => OnCourse(k)'
  PROVE  Sends'
<1>1. client \in [Keys -> Client]
  BY DEF Safe, TypeOK, Client
<1>2. ASSUME Undisturbed(k)' PROVE Undisturbed(k) /\ LiveRows(k)' /\ OnCourse(k)' /\ Accepted(k)'
  <2>1. Verifies(Manifest[k]) /\ client'[k].disturbed = FALSE
    BY <1>2 DEF Undisturbed, Verifies, Fingerprint, InKeyOrder
  <2>2. CASE client'[k] = c
    <3>1. Undisturbed(k)
      BY <2>1, <2>2 DEF Undisturbed
    <3>2. QED
      BY <2>2, <3>1, UndisturbedFacts DEF Accepted
  <2>3. CASE client'[k] = AfterLoss(k)
    <3>1. /\ client[k].disturbed = FALSE
          /\ \/ client[k].step = "create" /\ client'[k].step = "create"
             \/ client[k].step \in {"commit", "waiting"} /\ client'[k].step = "commit"
      BY <1>1, <2>1, <2>3, ClientFacts
    <3>2. Undisturbed(k)
      BY <2>1, <3>1 DEF Undisturbed
    <3>3. QED
      BY <2>3, <3>1, <3>2, UndisturbedFacts DEF Accepted
  <2>4. QED
    BY <2>2, <2>3, ReplyFacts
<1>3. \A l \in Keys \ {k} : client'[l] = client[l]
  BY ReplyFacts
<1>4. QED
  BY <1>2, <1>3, OneSendSteps

\* After a manifest or a resource.
LEMMA ResourcesOnCourse ==
  ASSUME NEW k, NEW u, NEW next, NEW n \in Nat, client'[k].upload = u, client'[k].next = next,
         uploads'[u] # None, uploads'[u].state \in {"manifest_received", "resources_pending"},
         uploads'[u].manifest = Manifest[k], DOMAIN Declared[Manifest[k]] = 1..n,
         received'[u] = {Declared[Manifest[k]][i] : i \in 1..next - 1},
         \/ client'[k].step = "resources"
         \/ client'[k].step = "commit" /\ next - 1 = n
  PROVE  OnCourse(k)'
<1>1. CASE client'[k].step = "resources"
  <2>1. Arrived(client[k].upload, k, client[k].next)'
    BY DEF Arrived
  <2>2. QED
    BY <1>1, <2>1 DEF OnCourse
<1>2. CASE client'[k].step = "commit" /\ next - 1 = n
  <2>1. received'[u] = ResourceKeys(uploads'[u].manifest)
    BY <1>2 DEF ResourceKeys
  <2>2. Ready(client[k].upload)'
    BY <2>1 DEF Ready
  <2>3. QED
    BY <1>2, <2>2 DEF OnCourse
<1>3. QED
  BY <1>1, <1>2

\* Where a send goes when a loss does not disturb it.
LEMMA RetriesStay ==
  ASSUME Safe, NEW k \in Keys, OnCourse(k), UNCHANGED <<uploads, received, dirs>>,
         client'[k].upload = client[k].upload,
         \/ client[k].step = "create" /\ client'[k].step = "create"
         \/ client[k].step \in {"commit", "waiting"} /\ client'[k].step = "commit"
  PROVE  OnCourse(k)'
BY DEF OnCourse, Committed, Ready

LEMMA FirstStepsStay ==
  ASSUME Safe, Safe', Sends, NEW k \in Keys
  PROVE  /\ Send(k) => Sends'
         /\ RequestLost(k) => Sends'
<1>1. client \in [Keys -> Client]
  BY DEF Safe, TypeOK, Client
<1>2. ASSUME NEW c, client' = [client EXCEPT ![k] = c],
             UNCHANGED <<uploads, received, dirs, sweep, refusals, clock>>,
             Undisturbed(k)' => Undisturbed(k) /\ OnCourse(k)'
      PROVE  Sends'
  <2>1. KeptForOthers(k) /\ RowsKept(k)
    BY <1>2 DEF KeptForOthers, RowsKept
  <2>2. \A l \in Keys \ {k} : client'[l] = client[l]
    BY <1>1, <1>2
  <2>3. Undisturbed(k)' => Undisturbed(k) /\ LiveRows(k)' /\ OnCourse(k)' /\ Accepted(k)'
    BY <1>2, <2>1, UndisturbedFacts, LiveStays DEF Accepted
  <2>4. QED
    BY <1>2, <2>1, <2>2, <2>3, OneSendSteps
<1>3. ASSUME Send(k) PROVE Sends'
  <2>1. /\ UNCHANGED <<uploads, received, dirs, sweep, refusals, clock>>
        /\ client' = [client EXCEPT ![k] = Proceed(k, "create")] /\ client[k].step = "ready"
    BY <1>3 DEF Send, Becomes, serverVars, sweepVars
  <2>2. client'[k].step = "create" /\ client'[k].disturbed = client[k].disturbed
    <3>1. "create" \in Steps
      BY DEF Steps
    <3>2. QED
      BY <1>1, <2>1, <3>1, ClientFacts
  <2>3. OnCourse(k) => OnCourse(k)'
    BY <2>1, <2>2 DEF OnCourse
  <2>4. Undisturbed(k)' => Undisturbed(k)
    BY <2>2 DEF Undisturbed, Verifies, Fingerprint, InKeyOrder
  <2>5. QED
    BY <1>2, <2>1, <2>3, <2>4, UndisturbedFacts
<1>4. ASSUME RequestLost(k) PROVE Sends'
  <2>1. /\ UNCHANGED <<uploads, received, dirs, sweep, refusals, clock>>
        /\ client' = [client EXCEPT ![k] = AfterLoss(k)]
    BY <1>4 DEF RequestLost, Becomes, serverVars, sweepVars
  <2>2. client'[k] = AfterLoss(k)
    BY <1>1, <2>1
  <2>3. ASSUME Undisturbed(k)' PROVE Undisturbed(k) /\ OnCourse(k)'
    <3>1. Verifies(Manifest[k]) /\ client'[k].disturbed = FALSE
      BY <2>3 DEF Undisturbed, Verifies, Fingerprint, InKeyOrder
    <3>2. /\ client[k].disturbed = FALSE /\ client'[k].upload = client[k].upload
          /\ \/ client[k].step = "create" /\ client'[k].step = "create"
             \/ client[k].step \in {"commit", "waiting"} /\ client'[k].step = "commit"
      BY <1>1, <2>2, <3>1, ClientFacts
    <3>3. Undisturbed(k) /\ OnCourse(k)
      BY <3>1, <3>2, UndisturbedFacts DEF Undisturbed
    <3>4. QED
      BY <2>1, <3>2, <3>3, RetriesStay
  <2>4. QED
    BY <1>2, <2>1, <2>3
<1>5. QED
  BY <1>3, <1>4

LEMMA CreateStays ==
  ASSUME Safe, Safe', Sends, NEW k \in Keys, CreateUpload(k)
  PROVE  Sends'
<1>1. /\ client \in [Keys -> Client] /\ opened \in 0..MaxUploads /\ MaxUploads \in Nat
      /\ uploads \in [Uploads -> Row \cup {None}] /\ dirs \in [Uploads -> (SUBSET AllResources) \cup {None}]
      /\ clock \in Nat /\ UploadTTL \in Nat \ {0}
  BY LimitsAssumption DEF Safe, TypeOK, Client
<1>2. UNCHANGED <<sweep, refusals, clock>> /\ client[k].step = "create"
  BY DEF CreateUpload, sweepVars
<1>3. ASSUME NEW u \in Sessions(k),
             Replied(k, [Proceed(k, "manifest") EXCEPT !.upload = u, !.next = 1]),
             UNCHANGED <<serverVars, opened>>
      PROVE  Sends'
  <2>1. UNCHANGED <<uploads, received, dirs>>
    BY <1>3 DEF serverVars
  <2>2. KeptForOthers(k) /\ RowsKept(k)
    BY <2>1 DEF KeptForOthers, RowsKept
  <2>3. PICK c : c = [Proceed(k, "manifest") EXCEPT !.upload = u, !.next = 1]
    OBVIOUS
  <2>4. u \in Uploads /\ uploads[u] # None /\ uploads[u].key = k
    BY DEF Sessions
  <2>5. c.upload = u /\ c.step = "manifest" /\ c.disturbed = client[k].disturbed
    <3>1. client \in [Keys -> Client] /\ k \in Keys /\ u \in Uploads
      BY <1>1, <2>4
    <3>2. QED
      BY <2>3, <3>1, SessionFacts
  <2>6. Replied(k, c)
    BY <1>3, <2>3
  <2>7. Undisturbed(k) => LiveRows(k)'
    BY <1>2, <2>2, UndisturbedFacts, LiveStays
  <2>8. ASSUME Undisturbed(k), client'[k] = c PROVE OnCourse(k)'
    <3>1. uploads[u].state = "created" /\ received[u] = {}
      BY <1>2, <2>4, <2>8, UndisturbedFacts DEF OnCourse
    <3>2. QED
      BY <2>1, <2>4, <2>5, <2>8, <3>1 DEF OnCourse
  <2>9. ASSUME Undisturbed(k), client'[k].step = "create" PROVE OnCourse(k)'
    BY <1>2, <2>1, <2>9, UndisturbedFacts DEF OnCourse
  <2>10. QED
    BY <1>2, <2>2, <2>5, <2>6, <2>7, <2>8, <2>9, AnsweredStays
<1>4. ASSUME Sessions(k) = {}, writer = None, opened < MaxUploads, opened' = opened + 1,
             uploads' = [uploads EXCEPT ![opened'] =
               [key |-> k, state |-> "created", expires |-> clock + UploadTTL,
                manifest |-> None, selection |-> 0]],
             dirs' = [dirs EXCEPT ![opened'] = {}],
             Replied(k, [Proceed(k, "manifest") EXCEPT !.upload = opened', !.next = 1]),
             UNCHANGED <<received, selections, artifacts>>
      PROVE  Sends'
  <2>1. PICK n, row : /\ n = opened + 1
                      /\ row = [key |-> k, state |-> "created", expires |-> clock + UploadTTL,
                                manifest |-> None, selection |-> 0]
    OBVIOUS
  <2>2. n \in Uploads /\ n > opened /\ opened' = n
    BY <1>1, <1>4, <2>1 DEF Uploads
  <2>3. /\ row \in Row /\ row # None /\ row.key = k /\ row.state = "created"
        /\ row.expires = clock + UploadTTL
    BY <1>1, <2>1, NoneIsNoValue DEF Row
  <2>4. /\ uploads'[n] = row /\ dirs'[n] = {}
        /\ \A u \in Uploads \ {n} : uploads'[u] = uploads[u] /\ dirs'[u] = dirs[u]
    BY <1>1, <1>4, <2>1, <2>2
  <2>5. uploads[n] = None /\ received[n] = {}
    <3>1. uploads[n] = None
      BY <1>1, <2>2 DEF Safe, RowsFollowKeys, Uploads
    <3>2. QED
      BY <2>2, <3>1 DEF Safe, RowsFollowKeys, Promised
  <2>6. KeptForOthers(k)
    BY <1>4, <2>3, <2>4, <2>5 DEF KeptForOthers
  <2>7. \A u \in Uploads : uploads'[u] # None /\ uploads'[u].key = k => u = n
    BY <1>4, <2>4 DEF Sessions
  <2>8. LiveRows(k)'
    <3>1. {} # None
      BY NoneIsNoValue
    <3>2. clock' < uploads'[n].expires /\ Copyable(n)'
      BY <1>1, <1>2, <1>4, <2>3, <2>4, <2>5, <3>1 DEF Copyable
    <3>3. QED
      BY <2>7, <3>2 DEF LiveRows, Sessions
  <2>9. PICK c : c = [Proceed(k, "manifest") EXCEPT !.upload = n, !.next = 1]
    OBVIOUS
  <2>10. c.upload = n /\ c.step = "manifest" /\ c.disturbed = client[k].disturbed
    BY <1>1, <2>2, <2>9, SessionFacts
  <2>11. Replied(k, c)
    BY <1>4, <2>2, <2>9
  <2>12. uploads'[n] # None /\ uploads'[n].state = "created" /\ received'[n] = {}
    BY <1>4, <2>3, <2>4, <2>5
  <2>13. client'[k] = c => OnCourse(k)'
    BY <2>10, <2>12 DEF OnCourse
  <2>14. client'[k].step = "create" => OnCourse(k)'
    BY <2>7, <2>12 DEF OnCourse
  <2>15. QED
    BY <1>2, <2>6, <2>8, <2>10, <2>11, <2>13, <2>14, AnsweredStays
<1>5. QED
  BY <1>3, <1>4 DEF CreateUpload

LEMMA ManifestStays ==
  ASSUME Safe, Safe', Sends, NEW k \in Keys, PutManifest(k)
  PROVE  Sends'
<1>1. PICK u : u = client[k].upload
  OBVIOUS
<1>2. UNCHANGED <<cleaning, sweepVars, clock, sweep>> /\ client[k].step = "manifest"
  BY DEF PutManifest, sweepVars
<1>3. client \in [Keys -> Client] /\ uploads \in [Uploads -> Row \cup {None}]
  BY DEF Safe, TypeOK, Client
<1>4. u \in Uploads
  BY <1>1, <1>2, <1>3 DEF Safe, ClientsFollowKeys, Client
<1>5. OnCourse(k) => uploads[u] # None /\ uploads[u].state = "created" /\ received[u] = {}
  BY <1>1, <1>2 DEF OnCourse
<1>6. ASSUME NEW code, Refused(k, code), ~Open(u) \/ uploads[u].state # "created" PROVE Sends'
  <2>1. SUFFICES ASSUME Undisturbed(k) PROVE FALSE
    BY <1>2, <1>6, RefusedStays
  <2>2. u \in Sessions(k) /\ uploads[u].state = "created"
    BY <1>1, <1>4, <1>5, <2>1, NoneIsNoValue, UndisturbedFacts DEF Safe, ClientsFollowKeys, Sessions
  <2>3. QED
    BY <1>6, <2>1, <2>2, UndisturbedFacts
<1>7. ASSUME Open(u), uploads[u].state = "created", writer = None,
             uploads' = [uploads EXCEPT ![u].state = "manifest_received",
                                        ![u].manifest = Manifest[k]],
             Replied(k, AfterResource(k, 1)),
             UNCHANGED <<received, dirs, selections, artifacts, writer, opened, refusals>>
      PROVE  Sends'
  <2>1. PICK row : row = [uploads[u] EXCEPT !.state = "manifest_received", !.manifest = Manifest[k]]
    OBVIOUS
  <2>2. uploads[u] \in Row /\ uploads[u].key = k /\ uploads[u] # None
    BY <1>1, <1>7, RowOfSend DEF Open
  <2>3. {"key", "state", "expires", "manifest", "selection"} \subseteq DOMAIN uploads[u]
    BY <2>2 DEF Row
  <2>4. row \in Row
    BY <2>1, <2>2, <2>3, ManifestAssumption DEF Row
  <2>5. /\ row.key = k /\ row.state = "manifest_received" /\ row.manifest = Manifest[k]
        /\ row # None
    BY <2>1, <2>2, <2>3, <2>4, NoneIsNoValue
  <2>6. uploads'[u] = row /\ \A v \in Uploads \ {u} : uploads'[v] = uploads[v]
    BY <1>3, <1>4, <1>7, <2>1
  <2>7. KeptForOthers(k)
    BY <1>7, <2>2, <2>5, <2>6 DEF KeptForOthers
  <2>8. ASSUME Undisturbed(k) PROVE LiveRows(k)'
    <3>1. LiveRows(k) /\ ~Committed(u) /\ u \in Sessions(k)
      BY <1>4, <1>7, <2>2, <2>8, UndisturbedFacts DEF Committed, Sessions
    <3>2. row.expires = uploads[u].expires
      BY <2>1, <2>3
    <3>3. \A v \in Sessions(k)' : v \in Sessions(k) /\ uploads'[v].expires = uploads[v].expires
      BY <2>2, <2>6, <3>1, <3>2 DEF Sessions
    <3>4. \A v \in Sessions(k)' : ~Committed(v)' => ~Committed(v)
      BY <2>6, <3>1 DEF Committed, Sessions
    <3>5. QED
      BY <1>2, <1>7, <3>1, <3>3, <3>4 DEF LiveRows, Copyable
  <2>9. PICK c : c = AfterResource(k, 1)
    OBVIOUS
  <2>10. PICK keys : keys = Declared[Manifest[k]]
    OBVIOUS
  <2>11. keys \in Seq(Nat)
    BY <2>10, ManifestAssumption, DeclaredAssumption
  <2>12. /\ c.upload = u /\ c.next = 1 /\ c.disturbed = client[k].disturbed
         /\ c.step = IF 1 > Len(keys) THEN "commit" ELSE "resources"
    BY <1>1, <1>3, <2>9, <2>10, ResourceFacts
  <2>13. DOMAIN keys = 1..Len(keys) /\ Len(keys) \in Nat
    BY <2>11
  <2>14. ASSUME Undisturbed(k), client'[k] = c PROVE OnCourse(k)'
    <3>1. received'[u] = {Declared[Manifest[k]][i] : i \in 1..1 - 1}
      BY <1>5, <1>7, <2>14, UndisturbedFacts
    <3>2. uploads'[u] # None /\ uploads'[u].state = "manifest_received" /\ uploads'[u].manifest = Manifest[k]
      BY <2>5, <2>6
    <3>3. c.step = "resources" \/ (c.step = "commit" /\ 1 - 1 = Len(keys))
      BY <2>12, <2>13
    <3>4. QED
      BY <2>10, <2>12, <2>13, <2>14, <3>1, <3>2, <3>3, ResourcesOnCourse
  <2>15. Replied(k, c) /\ UNCHANGED <<sweep, clock, refusals>>
    BY <1>2, <1>7, <2>9
  <2>16. QED
    BY <1>2, <2>7, <2>8, <2>12, <2>14, <2>15, AnsweredStays
<1>8. QED
  BY <1>1, <1>6, <1>7 DEF PutManifest

\* Before the last of them has arrived, the resources are not all there.
LEMMA NotYetAll ==
  ASSUME NEW m \in Manifests, NEW n \in DOMAIN Declared[m]
  PROVE  /\ n \in Nat \ {0} /\ Declared[m][n] \in ResourceKeys(m)
         /\ Declared[m][n] \notin {Declared[m][i] : i \in 1..n - 1}
         /\ {Declared[m][i] : i \in 1..n - 1} \cup {Declared[m][n]} = {Declared[m][i] : i \in 1..(n + 1) - 1}
<1>1. PICK keys : keys = Declared[m]
  OBVIOUS
<1>2. keys \in Seq(Nat) /\ \A i, j \in DOMAIN keys : keys[i] = keys[j] => i = j
  BY <1>1, DeclaredAssumption
<1>3. DOMAIN keys = 1..Len(keys) /\ Len(keys) \in Nat /\ n \in 1..Len(keys)
  BY <1>1, <1>2
<1>4. \A i \in 1..n - 1 : i \in DOMAIN keys /\ i # n
  BY <1>3
<1>5. keys[n] \notin {keys[i] : i \in 1..n - 1}
  BY <1>2, <1>3, <1>4
<1>6. 1..(n + 1) - 1 = 1..n - 1 \cup {n}
  BY <1>3
<1>7. {keys[i] : i \in 1..n - 1} \cup {keys[n]} = {keys[i] : i \in 1..(n + 1) - 1}
  BY <1>6
<1>8. QED
  BY <1>1, <1>3, <1>5, <1>7 DEF ResourceKeys

LEMMA ResourceStays ==
  ASSUME Safe, Safe', Sends, NEW k \in Keys, PutResource(k)
  PROVE  Sends'
<1>1. PICK u, n, r : u = client[k].upload /\ n = client[k].next /\ r = Declared[Manifest[k]][n]
  OBVIOUS
<1>2. UNCHANGED <<cleaning, sweepVars, clock, sweep>> /\ client[k].step = "resources"
  BY DEF PutResource, sweepVars
<1>3. /\ client \in [Keys -> Client] /\ uploads \in [Uploads -> Row \cup {None}]
      /\ received \in [Uploads -> SUBSET AllResources]
      /\ dirs \in [Uploads -> (SUBSET AllResources) \cup {None}]
  BY DEF Safe, TypeOK, Client
<1>4. u \in Uploads /\ n \in DOMAIN Declared[Manifest[k]] /\ Manifest[k] \in Manifests
  BY <1>1, <1>2, <1>3, ManifestAssumption DEF Safe, ClientsFollowKeys, Client
<1>5. OnCourse(k) => /\ uploads[u] # None
                     /\ uploads[u].state \in {"manifest_received", "resources_pending"}
                     /\ received[u] = {Declared[Manifest[k]][i] : i \in 1..n - 1}
  BY <1>1, <1>2 DEF OnCourse, Arrived
<1>6. /\ n \in Nat \ {0} /\ r \in ResourceKeys(Manifest[k])
      /\ r \notin {Declared[Manifest[k]][i] : i \in 1..n - 1}
      /\ {Declared[Manifest[k]][i] : i \in 1..n - 1} \cup {r} = {Declared[Manifest[k]][i] : i \in 1..(n + 1) - 1}
  BY <1>1, <1>4, NotYetAll
<1>7. ASSUME NEW code, Refused(k, code),
             \/ ~Open(u) \/ uploads[u].state \notin {"manifest_received", "resources_pending"}
             \/ r \in received[u]
      PROVE  Sends'
  <2>1. SUFFICES ASSUME Undisturbed(k) PROVE FALSE
    BY <1>2, <1>7, RefusedStays
  <2>2. OnCourse(k)
    BY <2>1, UndisturbedFacts
  <2>3. u \in Sessions(k)
    BY <1>1, <1>4, <1>5, <2>2, NoneIsNoValue DEF Safe, ClientsFollowKeys, Sessions
  <2>4. Open(u)
    BY <2>1, <2>3, UndisturbedFacts
  <2>5. QED
    BY <1>5, <1>6, <1>7, <2>2, <2>4
<1>8. ASSUME Open(u), uploads[u].state \in {"manifest_received", "resources_pending"}, writer = None,
             dirs' = [dirs EXCEPT ![u] = FilesIn(u) \cup {r}],
             received' = [received EXCEPT ![u] = @ \cup {r}],
             uploads' = [uploads EXCEPT ![u].state = "resources_pending"],
             Replied(k, AfterResource(k, n + 1)),
             UNCHANGED <<selections, artifacts, writer, opened, refusals>>
      PROVE  Sends'
  <2>1. PICK row : row = [uploads[u] EXCEPT !.state = "resources_pending"]
    OBVIOUS
  <2>2. uploads[u] \in Row /\ uploads[u].key = k /\ uploads[u] # None
    BY <1>1, <1>8, RowOfSend DEF Open
  <2>3. {"key", "state", "expires", "manifest", "selection"} \subseteq DOMAIN uploads[u]
    BY <2>2 DEF Row
  <2>4. row \in Row
    BY <2>1, <2>2, <2>3 DEF Row
  <2>5. row.key = k /\ row.state = "resources_pending" /\ row.manifest = uploads[u].manifest /\ row # None
    BY <2>1, <2>2, <2>3, <2>4, NoneIsNoValue
  <2>6. row.manifest = Manifest[k]
    BY <1>4, <1>8, <2>2, <2>5 DEF Safe, RowsFollowKeys
  <2>7. /\ uploads'[u] = row /\ \A v \in Uploads \ {u} : uploads'[v] = uploads[v]
        /\ received'[u] = received[u] \cup {r} /\ dirs'[u] = FilesIn(u) \cup {r}
        /\ \A v \in Uploads \ {u} : received'[v] = received[v] /\ dirs'[v] = dirs[v]
    BY <1>3, <1>4, <1>8, <2>1
  <2>8. KeptForOthers(k)
    BY <2>2, <2>5, <2>7 DEF KeptForOthers
  <2>9. ASSUME Undisturbed(k) PROVE LiveRows(k)'
    <3>1. LiveRows(k) /\ ~Committed(u) /\ u \in Sessions(k)
      BY <1>4, <1>8, <2>2, <2>9, UndisturbedFacts DEF Committed, Sessions
    <3>2. clock' < uploads'[u].expires
      <4>1. row.expires = uploads[u].expires
        BY <2>1, <2>3
      <4>2. QED
        BY <1>2, <2>7, <3>1, <4>1 DEF LiveRows
    <3>3. Copyable(u)'
      <4>1. Copyable(u)
        BY <3>1 DEF LiveRows
      <4>2. received[u] \cup {r} \subseteq FilesIn(u) \cup {r}
        BY <4>1 DEF Copyable, FilesIn
      <4>3. FilesIn(u) \cup {r} \in SUBSET AllResources
        BY <1>3, <1>4, <1>6 DEF FilesIn, AllResources
      <4>4. QED
        BY <2>7, <4>2, <4>3, NoneIsNoValue DEF Copyable
    <3>4. ASSUME NEW v \in Sessions(k)', v # u, ~Committed(v)' PROVE clock' < uploads'[v].expires /\ Copyable(v)'
      <4>1. v \in Sessions(k) /\ ~Committed(v)
        BY <2>7, <3>4 DEF Sessions, Committed
      <4>2. clock < uploads[v].expires /\ Copyable(v)
        BY <3>1, <4>1 DEF LiveRows
      <4>3. v \in Uploads \ {u}
        BY <3>4, <4>1 DEF Sessions
      <4>4. QED
        BY <1>2, <2>7, <4>2, <4>3 DEF Copyable
    <3>5. QED
      BY <3>2, <3>3, <3>4 DEF LiveRows
  <2>10. PICK c : c = AfterResource(k, n + 1)
    OBVIOUS
  <2>11. PICK keys : keys = Declared[Manifest[k]]
    OBVIOUS
  <2>12. keys \in Seq(Nat)
    BY <1>4, <2>11, DeclaredAssumption
  <2>13. DOMAIN keys = 1..Len(keys) /\ Len(keys) \in Nat /\ n + 1 \in Nat /\ n <= Len(keys)
    BY <1>4, <1>6, <2>11, <2>12
  <2>14. /\ c.upload = u /\ c.next = n + 1 /\ c.disturbed = client[k].disturbed
         /\ c.step = IF n + 1 > Len(keys) THEN "commit" ELSE "resources"
    BY <1>1, <1>3, <2>10, <2>11, <2>13, ResourceFacts
  <2>15. ASSUME Undisturbed(k), client'[k] = c PROVE OnCourse(k)'
    <3>1. received'[u] = {Declared[Manifest[k]][i] : i \in 1..(n + 1) - 1}
      BY <1>5, <1>6, <2>7, <2>15, UndisturbedFacts
    <3>2. c.step = "resources" \/ (c.step = "commit" /\ (n + 1) - 1 = Len(keys))
      BY <1>6, <2>13, <2>14
    <3>3. QED
      BY <2>5, <2>6, <2>7, <2>11, <2>13, <2>14, <2>15, <3>1, <3>2, ResourcesOnCourse
  <2>16. Replied(k, c) /\ UNCHANGED <<sweep, clock, refusals>>
    BY <1>2, <1>8, <2>10
  <2>17. QED
    BY <1>2, <2>8, <2>9, <2>14, <2>15, <2>16, AnsweredStays
<1>9. QED
  BY <1>1, <1>7, <1>8 DEF PutResource

LEMMA CommitStays ==
  ASSUME Safe, Safe', Sends, NEW k \in Keys, Commit(k)
  PROVE  Sends'
<1>1. PICK u : u = client[k].upload
  OBVIOUS
<1>2. UNCHANGED <<cleaning, sweepVars, clock, sweep>> /\ client[k].step = "commit"
  BY DEF Commit, sweepVars
<1>3. /\ client \in [Keys -> Client] /\ u \in Uploads /\ u # None
      /\ "waiting" \in Steps /\ "done" \in Steps
  BY <1>1, <1>2, NoneIsNoValue DEF Safe, TypeOK, Client, ClientsFollowKeys, Steps
<1>4. Undisturbed(k) => u \in Sessions(k) /\ Open(u) /\ (Committed(u) \/ Ready(u))
  <2>1. SUFFICES ASSUME Undisturbed(k)
                 PROVE  u \in Sessions(k) /\ Open(u) /\ (Committed(u) \/ Ready(u))
    OBVIOUS
  <2>2. uploads[u] # None /\ (Committed(u) \/ Ready(u))
    BY <1>1, <1>2, <2>1, UndisturbedFacts DEF OnCourse
  <2>3. u \in Sessions(k)
    BY <1>1, <1>3, <2>2 DEF Safe, ClientsFollowKeys, Sessions
  <2>4. QED
    BY <2>1, <2>2, <2>3, UndisturbedFacts
<1>5. ASSUME NEW code, Refused(k, code), ~Open(u) \/ (~Committed(u) /\ ~Ready(u)) PROVE Sends'
  BY <1>2, <1>4, <1>5, RefusedStays
<1>6. ASSUME UNCHANGED serverVars
      PROVE  /\ KeptForOthers(k) /\ UNCHANGED <<uploads, received, dirs>>
             /\ Undisturbed(k) => LiveRows(k)'
  <2>1. KeptForOthers(k) /\ RowsKept(k)
    BY <1>6 DEF KeptForOthers, RowsKept, serverVars
  <2>2. QED
    BY <1>2, <1>6, <2>1, UndisturbedFacts, LiveStays DEF serverVars
<1>7. ASSUME Replied(k, Proceed(k, "done")), UNCHANGED <<serverVars, refusals>> PROVE Sends'
  <2>1. PICK c : c = Proceed(k, "done")
    OBVIOUS
  <2>2. c.step = "done" /\ c.disturbed = client[k].disturbed
    BY <1>3, <2>1, ClientFacts
  <2>3. client'[k] = c => OnCourse(k)'
    BY <2>2 DEF OnCourse
  <2>4. ASSUME Undisturbed(k), client'[k] = AfterLoss(k), client'[k].step = "commit" PROVE OnCourse(k)'
    <3>1. client'[k].upload = client[k].upload
      BY <1>3, <2>4, ClientFacts
    <3>2. QED
      BY <1>2, <1>6, <1>7, <2>4, <3>1, UndisturbedFacts, RetriesStay
  <2>5. Replied(k, c) /\ UNCHANGED <<sweep, clock, refusals>>
    BY <1>2, <1>7, <2>1
  <2>6. QED
    BY <1>2, <1>6, <1>7, <2>2, <2>3, <2>4, <2>5, AnsweredStays
<1>8. ASSUME Becomes(k, [client[k] EXCEPT !.step = "waiting"]), UNCHANGED <<serverVars, faults, refusals>>
      PROVE  Sends'
  <2>1. PICK c : c = [client[k] EXCEPT !.step = "waiting"]
    OBVIOUS
  <2>2. c.step = "waiting" /\ c.upload = u /\ c.disturbed = client[k].disturbed
    BY <1>1, <1>3, <2>1 DEF Client
  <2>3. client'[k] = c /\ \A l \in Keys \ {k} : client'[l] = client[l]
    BY <1>3, <1>8, <2>1 DEF Becomes
  <2>4. Undisturbed(k)' => Undisturbed(k)
    BY <2>2, <2>3 DEF Undisturbed, Verifies, Fingerprint, InKeyOrder
  <2>5. Undisturbed(k) => OnCourse(k)'
    <3>1. SUFFICES ASSUME Undisturbed(k) PROVE OnCourse(k)'
      OBVIOUS
    <3>2. uploads[u] # None /\ (Committed(u) \/ Ready(u))
      BY <1>1, <1>2, <3>1, UndisturbedFacts DEF OnCourse
    <3>3. uploads'[u] # None /\ (Committed(u)' \/ Ready(u)')
      BY <1>6, <1>8, <3>2 DEF Committed, Ready
    <3>4. QED
      BY <2>2, <2>3, <3>3 DEF OnCourse
  <2>6. Undisturbed(k) => Accepted(k)'
    BY <1>8, UndisturbedFacts DEF Accepted
  <2>7. QED
    BY <1>2, <1>6, <1>8, <2>3, <2>4, <2>5, <2>6, OneSendSteps
<1>9. QED
  BY <1>1, <1>5, <1>7, <1>8 DEF Commit

LEMMA PublishStays ==
  ASSUME Safe, Safe', Sends, Publish
  PROVE  Sends'
<1>1. PICK u, m : u = writer.upload /\ m = uploads[u].manifest
  OBVIOUS
<1>2. writer # None /\ UNCHANGED <<uploads, received, dirs, sweep, clock>>
  BY DEF Publish, sweepVars
<1>3. /\ u \in Uploads /\ uploads[u] # None /\ m = Manifest[uploads[u].key] /\ ~Committed(u)
  BY <1>1, <1>2, WriterFacts
<1>4. client \in [Keys -> Client]
  BY DEF Safe, TypeOK, Client
<1>5. ASSUME NEW k \in Keys, k \in Waiting(u) PROVE u \in Sessions(k) /\ m = Manifest[k]
  <2>1. u # None
    BY <1>3, NoneIsNoValue
  <2>2. QED
    BY <1>3, <1>5, <2>1 DEF Waiting, Safe, ClientsFollowKeys, Sessions
<1>6. \/ /\ ~Copyable(u) /\ UNCHANGED refusals
         /\ client' = [k \in Keys |-> IF k \in Waiting(u) THEN AfterLoss(k) ELSE client[k]]
      \/ UNCHANGED <<client, refusals>>
      \/ /\ ~Verifies(m)
         /\ client' = [k \in Keys |-> IF k \in Waiting(u) THEN Stop(k) ELSE client[k]]
         /\ refusals' = refusals \cup {<<k, "unverifiable">> : k \in Waiting(u)}
  BY <1>1 DEF Publish
<1>7. ASSUME NEW k \in Keys, Undisturbed(k)' PROVE Undisturbed(k)
  <2>1. client'[k] \in {client[k], AfterLoss(k), Stop(k)}
    BY <1>6, <1>4
  <2>2. client'[k].disturbed = FALSE => client[k].disturbed = FALSE
    BY <1>4, <2>1, ClientFacts
  <2>3. QED
    BY <1>7, <2>2 DEF Undisturbed, Verifies, Fingerprint, InKeyOrder
<1>8. ASSUME NEW k \in Keys, Undisturbed(k)
      PROVE  client'[k] = client[k] /\ \A code : <<k, code>> \in refusals' => <<k, code>> \in refusals
  <2>1. k \in Waiting(u) => Copyable(u) /\ Verifies(m)
    <3>1. SUFFICES ASSUME k \in Waiting(u) PROVE Copyable(u) /\ Verifies(m)
      OBVIOUS
    <3>2. u \in Sessions(k) /\ m = Manifest[k] /\ LiveRows(k) /\ Verifies(Manifest[k])
      BY <1>5, <1>8, <3>1, UndisturbedFacts DEF Undisturbed
    <3>3. QED
      BY <1>3, <3>2 DEF LiveRows
  <2>2. QED
    BY <1>4, <1>6, <2>1
<1>9. ASSUME NEW k \in Keys, Undisturbed(k)'
      PROVE  Undisturbed(k) /\ LiveRows(k)' /\ OnCourse(k)' /\ Accepted(k)'
  <2>1. Undisturbed(k) /\ LiveRows(k) /\ OnCourse(k) /\ Accepted(k)
    BY <1>7, <1>9, UndisturbedFacts
  <2>2. RowsKept(k)
    BY <1>2 DEF RowsKept
  <2>3. LiveRows(k)' /\ OnCourse(k)'
    BY <1>2, <1>8, <2>1, <2>2, LiveStays, CourseStays
  <2>4. QED
    BY <1>8, <2>1, <2>3 DEF Accepted
<1>10. QED
  BY <1>2, <1>9, AllSendsStay

LEMMA FinishStays ==
  ASSUME Safe, Safe', Sends, Finish
  PROVE  Sends'
<1>1. PICK u, m, k : u = writer.upload /\ m = uploads[u].manifest /\ k = uploads[u].key
  OBVIOUS
<1>2. writer # None /\ UNCHANGED <<received, dirs, client, refusals, sweep, clock>>
  BY DEF Finish, sweepVars
<1>3. /\ u \in Uploads /\ uploads[u] \in Row /\ uploads[u] # None /\ k \in Keys
      /\ m = Manifest[k] /\ m \in Manifests /\ ~Committed(u) /\ received[u] = ResourceKeys(m)
  BY <1>1, <1>2, WriterFacts
<1>4. /\ uploads \in [Uploads -> Row \cup {None}] /\ selections \in Seq(Selection)
      /\ client \in [Keys -> Client]
  BY DEF Safe, TypeOK, Client
<1>5. PICK n, row : n = Len(selections') /\ row = [uploads[u] EXCEPT !.state = "committed", !.selection = n]
  OBVIOUS
<1>6. n \in Nat
  <2>1. selections' = Append(selections,
          [upload |-> u, key |-> uploads[u].key, manifest |-> m, fingerprint |-> Fingerprint(m)])
    BY <1>1 DEF Finish
  <2>2. QED
    BY <1>4, <1>5, <2>1
<1>7. {"key", "state", "expires", "manifest", "selection"} \subseteq DOMAIN uploads[u]
  BY <1>3 DEF Row
<1>8. row \in Row
  BY <1>3, <1>5, <1>6, <1>7 DEF Row
<1>9. row.key = k /\ row.state = "committed" /\ row # None
  BY <1>1, <1>5, <1>7, <1>8, NoneIsNoValue
<1>10. uploads'[u] = row /\ \A v \in Uploads \ {u} : uploads'[v] = uploads[v]
  BY <1>1, <1>3, <1>4, <1>5 DEF Finish
<1>11. KeptForOthers(k)
  BY <1>1, <1>2, <1>3, <1>9, <1>10 DEF KeptForOthers
<1>12. ASSUME LiveRows(k) PROVE LiveRows(k)'
  <2>1. ASSUME NEW v \in Sessions(k)', ~Committed(v)' PROVE clock' < uploads'[v].expires /\ Copyable(v)'
    <3>1. v \in Uploads \ {u}
      BY <1>9, <1>10, <2>1 DEF Sessions, Committed
    <3>2. v \in Sessions(k) /\ ~Committed(v)
      BY <1>10, <2>1, <3>1 DEF Sessions, Committed
    <3>3. clock < uploads[v].expires /\ Copyable(v)
      BY <1>12, <3>2 DEF LiveRows
    <3>4. QED
      BY <1>2, <1>10, <3>1, <3>3 DEF Copyable
  <2>2. QED
    BY <2>1 DEF LiveRows
<1>13. ASSUME OnCourse(k) PROVE OnCourse(k)'
  <2>1. client[k].step \in {"manifest", "resources", "commit", "waiting"} => client[k].upload = u
    <3>1. SUFFICES ASSUME client[k].step \in {"manifest", "resources", "commit", "waiting"}
                   PROVE  client[k].upload = u
      OBVIOUS
    <3>2. client[k].upload # None /\ uploads[client[k].upload] # None
      <4>1. client[k].upload # None
        BY <1>3, <3>1 DEF Safe, ClientsFollowKeys
      <4>2. uploads[client[k].upload] # None
        BY <1>13, <3>1 DEF OnCourse
      <4>3. QED
        BY <4>1, <4>2
    <3>3. client[k].upload \in Uploads
      BY <1>3, <1>4, <3>2 DEF Client
    <3>4. uploads[client[k].upload].key = k
      <4>1. ClientsFollowKeys
        BY DEF Safe
      <4>2. QED
        BY <1>3, <3>2, <4>1 DEF ClientsFollowKeys
    <3>5. QED
      BY <1>1, <1>3, <3>2, <3>3, <3>4 DEF Safe, TypeOK
  <2>2. Ready(u)
    BY <1>1, <1>2 DEF Safe, WriterIsReady
  <2>3. client[k].step \notin {"ready", "create"}
    BY <1>1, <1>3, <1>13, <2>2 DEF OnCourse, Ready
  <2>4. client[k].step # "manifest"
    BY <1>13, <2>1, <2>2 DEF OnCourse, Ready
  <2>5. client[k].step # "resources"
    <3>1. SUFFICES ASSUME client[k].step = "resources" PROVE FALSE
      OBVIOUS
    <3>2. client[k].next \in DOMAIN Declared[m]
      BY <1>3, <3>1 DEF Safe, ClientsFollowKeys
    <3>3. received[u] = {Declared[m][i] : i \in 1..client[k].next - 1}
      BY <1>3, <1>13, <2>1, <3>1 DEF OnCourse, Arrived
    <3>4. PICK i : i = client[k].next
      OBVIOUS
    <3>5. Declared[m][i] \in ResourceKeys(m) /\ Declared[m][i] \notin {Declared[m][j] : j \in 1..i - 1}
      BY <1>3, <3>2, <3>4, NotYetAll
    <3>6. received[u] = {Declared[m][j] : j \in 1..i - 1}
      BY <3>3, <3>4
    <3>7. QED
      BY <1>3, <3>5, <3>6
  <2>6. client[k].step \in {"commit", "waiting"} => OnCourse(k)'
    BY <1>2, <1>9, <1>10, <2>1 DEF OnCourse, Committed
  <2>7. QED
    BY <1>2, <2>3, <2>4, <2>5, <2>6 DEF OnCourse
<1>14. Undisturbed(k)' => Undisturbed(k) /\ LiveRows(k)' /\ OnCourse(k)' /\ Accepted(k)'
  <2>1. SUFFICES ASSUME Undisturbed(k)' PROVE Undisturbed(k) /\ LiveRows(k)' /\ OnCourse(k)' /\ Accepted(k)'
    OBVIOUS
  <2>2. Undisturbed(k)
    BY <1>2, <2>1 DEF Undisturbed, Verifies, Fingerprint, InKeyOrder
  <2>3. LiveRows(k) /\ OnCourse(k) /\ Accepted(k)
    BY <1>3, <2>2, UndisturbedFacts
  <2>4. QED
    BY <1>2, <1>12, <1>13, <2>2, <2>3 DEF Accepted
<1>15. QED
  BY <1>2, <1>3, <1>11, <1>14, OneSendSteps

LEMMA CleanUpStays ==
  ASSUME Safe, Sends, NEW u \in Uploads, CleanUp(u)
  PROVE  Sends'
<1>1. /\ UNCHANGED <<uploads, received, refusals, sweep, clock>> /\ u \in cleaning
      /\ dirs' \in {dirs, [dirs EXCEPT ![u] = None]}
      /\ client' = [k \in Keys |-> IF k \in Waiting(u) THEN Proceed(k, "done") ELSE client[k]]
  BY DEF CleanUp, sweepVars
<1>2. client \in [Keys -> Client] /\ "done" \in Steps
  BY DEF Safe, TypeOK, Client, Steps
<1>3. \A v \in Uploads : dirs'[v] = dirs[v] \/ uploads[v] = None \/ Committed(v)
  BY <1>1 DEF Safe, TypeOK, CleaningIsCommitted
<1>4. ASSUME NEW k \in Keys, Undisturbed(k)'
      PROVE  Undisturbed(k) /\ LiveRows(k)' /\ OnCourse(k)' /\ Accepted(k)'
  <2>1. client'[k] = client[k] \/ client'[k] = Proceed(k, "done")
    BY <1>1
  <2>2. Proceed(k, "done").step = "done" /\ Proceed(k, "done").disturbed = client[k].disturbed
    BY <1>2, ClientFacts
  <2>3. Undisturbed(k)
    BY <1>4, <2>1, <2>2 DEF Undisturbed, Verifies, Fingerprint, InKeyOrder
  <2>4. LiveRows(k) /\ OnCourse(k) /\ Accepted(k)
    BY <2>3, UndisturbedFacts
  <2>5. RowsKept(k)
    BY <1>1, <1>3 DEF RowsKept
  <2>6. OnCourse(k)'
    <3>1. CASE client'[k] = client[k]
      BY <2>4, <2>5, <3>1, CourseStays
    <3>2. CASE client'[k] = Proceed(k, "done")
      BY <2>2, <3>2 DEF OnCourse
    <3>3. QED
      BY <2>1, <3>1, <3>2
  <2>7. QED
    BY <1>1, <2>3, <2>4, <2>5, <2>6, LiveStays DEF Accepted
<1>5. QED
  BY <1>1, <1>4, AllSendsStay

LEMMA CrashStays ==
  ASSUME Safe, Sends, Crash
  PROVE  Sends'
<1>1. /\ UNCHANGED <<uploads, received, dirs, refusals, clock>> /\ sweep' = Idle
      /\ client' = [k \in Keys |-> IF client[k].step = "waiting" THEN AfterLoss(k) ELSE client[k]]
  BY DEF Crash, serverVars
<1>2. client \in [Keys -> Client]
  BY DEF Safe, TypeOK, Client
<1>3. ASSUME NEW k \in Keys, Undisturbed(k)'
      PROVE  Undisturbed(k) /\ LiveRows(k)' /\ OnCourse(k)' /\ Accepted(k)'
  <2>1. Verifies(Manifest[k]) /\ client'[k].disturbed = FALSE
    BY <1>3 DEF Undisturbed, Verifies, Fingerprint, InKeyOrder
  <2>2. RowsKept(k)
    BY <1>1 DEF RowsKept
  <2>3. CASE client[k].step = "waiting"
    <3>1. client'[k] = AfterLoss(k)
      BY <1>1, <2>3
    <3>2. /\ client[k].disturbed = FALSE /\ client'[k].upload = client[k].upload
          /\ client'[k].step = "commit"
      BY <1>2, <2>1, <2>3, <3>1, ClientFacts
    <3>3. Undisturbed(k)
      BY <2>1, <3>2 DEF Undisturbed
    <3>4. LiveRows(k) /\ OnCourse(k) /\ Accepted(k)
      BY <3>3, UndisturbedFacts
    <3>5. OnCourse(k)'
      BY <1>1, <2>3, <3>2, <3>4, RetriesStay
    <3>6. QED
      BY <1>1, <2>2, <3>3, <3>4, <3>5, LiveStays DEF Accepted
  <2>4. CASE client[k].step # "waiting"
    <3>1. client'[k] = client[k]
      BY <1>1, <2>4
    <3>2. Undisturbed(k)
      BY <2>1, <3>1 DEF Undisturbed
    <3>3. LiveRows(k) /\ OnCourse(k) /\ Accepted(k)
      BY <3>2, UndisturbedFacts
    <3>4. QED
      BY <1>1, <2>2, <3>1, <3>2, <3>3, LiveStays, CourseStays DEF Accepted
  <2>5. QED
    BY <2>3, <2>4
<1>4. sweep'.chosen \subseteq sweep.chosen
  BY <1>1, IdleIsSweep
<1>5. QED
  BY <1>1, <1>3, <1>4, AllSendsStay

LEMMA TickStays ==
  ASSUME Safe, Sends, Tick
  PROVE  Sends'
<1>1. UNCHANGED <<uploads, received, dirs, refusals, sweep>> /\ clock' = clock + 1
  BY DEF Tick, serverVars, sweepVars
<1>2. ASSUME NEW k \in Keys, Undisturbed(k)'
      PROVE  Undisturbed(k) /\ LiveRows(k)' /\ OnCourse(k)' /\ Accepted(k)'
  <2>1. Undisturbed(k) /\ ~Expires(k)
    BY <1>2, TickFacts DEF Undisturbed, Verifies, Fingerprint, InKeyOrder
  <2>2. LiveRows(k) /\ OnCourse(k) /\ Accepted(k)
    BY <2>1, UndisturbedFacts
  <2>3. RowsKept(k)
    BY <1>1 DEF RowsKept
  <2>4. OnCourse(k)'
    BY <2>2, <2>3, TickFacts, CourseStays
  <2>5. ASSUME NEW u \in Sessions(k), ~Committed(u) PROVE clock' < uploads[u].expires
    <3>1. ~(uploads[u].expires <= clock')
      BY <2>1, <2>5 DEF Expires, Committed
    <3>2. u \in Uploads /\ uploads[u] # None
      BY DEF Sessions
    <3>3. uploads[u].expires \in Nat /\ clock \in Nat
      BY <3>2, LimitsAssumption DEF Safe, TypeOK, Row
    <3>4. QED
      BY <1>1, <3>1, <3>3
  <2>6. LiveRows(k)'
    BY <1>1, <2>2, <2>5 DEF LiveRows, Sessions, Committed, Copyable
  <2>7. QED
    BY <1>1, <2>1, <2>2, <2>4, <2>6 DEF Accepted
<1>3. QED
  BY <1>1, <1>2, AllSendsStay

\* Sweeps select, clean up and delete uploads of disturbed sends only.
LEMMA SweepsStay ==
  ASSUME Safe, Safe', Sends
  PROVE  /\ SweepSelects => Sends'
         /\ SweepCleans => Sends'
         /\ SweepDeletes => Sends'
<1>1. \A k \in Keys : Undisturbed(k)' /\ client' = client => Undisturbed(k)
  BY DEF Undisturbed, Verifies, Fingerprint, InKeyOrder
<1>2. ASSUME NEW k \in Keys, Undisturbed(k), RowsKept(k), UNCHANGED <<client, clock, refusals>>
      PROVE  LiveRows(k)' /\ OnCourse(k)' /\ Accepted(k)'
  BY <1>2, UndisturbedFacts, LiveStays, CourseStays DEF Accepted
<1>3. ASSUME SweepSelects PROVE Sends'
  <2>1. /\ UNCHANGED <<uploads, received, dirs, client, clock, refusals>>
        /\ sweep' = [step |-> "clean", chosen |-> {u \in Uploads : Expired(u)}, cleaned |-> {}]
    BY <1>3 DEF SweepSelects, serverVars
  <2>2. \A k \in Keys : RowsKept(k)
    BY <2>1 DEF RowsKept
  <2>3. ASSUME NEW u \in sweep'.chosen PROVE ~Undisturbed(uploads[u].key)'
    <3>1. u \in Uploads /\ Expired(u) /\ uploads[u] # None
      BY <2>1, <2>3 DEF Expired
    <3>2. PICK k : k = uploads[u].key
      OBVIOUS
    <3>3. k \in Keys /\ u \in Sessions(k)
      BY <3>1, <3>2 DEF Safe, TypeOK, Row, Sessions
    <3>4. ~Undisturbed(k)
      BY <3>1, <3>3, UndisturbedFacts
    <3>5. ~Undisturbed(k)'
      BY <1>1, <2>1, <3>3, <3>4
    <3>6. QED
      BY <2>1, <3>2, <3>5
  <2>4. SweepSpares'
    BY <2>3 DEF SweepSpares
  <2>5. QED
    BY <1>1, <1>2, <2>1, <2>2, <2>4 DEF Sends, OnTrack
<1>4. ASSUME SweepCleans PROVE Sends'
  <2>1. PICK done \in SUBSET sweep.chosen :
          /\ sweep' = [sweep EXCEPT !.step = "delete", !.cleaned = done]
          /\ dirs' = [u \in Uploads |-> IF u \in done THEN None ELSE dirs[u]]
    BY <1>4 DEF SweepCleans
  <2>2. UNCHANGED <<uploads, received, client, clock, refusals>>
    BY <1>4 DEF SweepCleans
  <2>3. sweep'.chosen = sweep.chosen
    BY <2>1 DEF Safe, SweepIsOfExpired, Sweep
  <2>4. ASSUME NEW k \in Keys, Undisturbed(k) PROVE RowsKept(k)
    <3>1. \A u \in Sessions(k) : u \notin done
      BY <2>1, <2>4, UndisturbedFacts
    <3>2. QED
      BY <2>1, <2>2, <3>1 DEF RowsKept, Sessions
  <2>5. QED
    BY <1>1, <1>2, <2>2, <2>3, <2>4, AllSendsStay
<1>5. ASSUME SweepDeletes PROVE Sends'
  <2>1. /\ UNCHANGED <<dirs, client, clock, refusals>> /\ sweep' = Idle
        /\ uploads' = [u \in Uploads |-> IF u \in sweep.cleaned THEN None ELSE uploads[u]]
        /\ received' = [u \in Uploads |-> IF u \in sweep.cleaned THEN {} ELSE received[u]]
    BY <1>5 DEF SweepDeletes
  <2>2. sweep.cleaned \subseteq sweep.chosen
    BY DEF Safe, TypeOK
  <2>3. ASSUME NEW k \in Keys, Undisturbed(k) PROVE RowsKept(k)
    <3>1. \A u \in Sessions(k) : u \notin sweep.cleaned
      BY <2>2, <2>3, UndisturbedFacts
    <3>2. QED
      BY <2>1, <3>1 DEF RowsKept, Sessions
  <2>4. SweepSpares'
    BY <2>1, IdleIsSweep DEF SweepSpares
  <2>5. QED
    BY <1>1, <1>2, <2>1, <2>3, <2>4 DEF Sends, OnTrack
<1>6. QED
  BY <1>3, <1>4, <1>5

-----------------------------------------------------------------------------
(* The theorems.                                                           *)

LEMMA InitIInv == Init => IInv
<1> SUFFICES ASSUME Init PROVE IInv
  OBVIOUS
<1>1. PICK c : c = [step |-> "ready", upload |-> None, next |-> 1, again |-> FALSE,
                 disturbed |-> FALSE]
  OBVIOUS
<1>2. c \in Client /\ c.step = "ready" /\ c.upload = None
  BY <1>1 DEF Client, Steps
<1>3. client \in [Keys -> Client] /\ \A k \in Keys : client[k] = c
  BY <1>1, <1>2 DEF Init
<1>4. /\ uploads = [u \in Uploads |-> None] /\ received = [u \in Uploads |-> {}]
      /\ dirs = [u \in Uploads |-> None] /\ selections = <<>> /\ artifacts = {} /\ writer = None
      /\ cleaning = {} /\ sweep = Idle /\ clock = 0 /\ opened = 0 /\ faults = 0
      /\ raced = {} /\ refusals = {}
  BY DEF Init
<1>5. selections \in Seq(Selection) /\ Len(selections) = 0 /\ 1..Len(selections) = {}
  BY <1>4
<1>6. TypeOK
  BY <1>3, <1>4, <1>5, LimitsAssumption, IdleIsSweep DEF TypeOK, Client
<1>7. RowsFollowKeys /\ ClientsFollowKeys /\ WriterIsReady /\ ArtifactsAreWhole /\ CleaningIsCommitted
  BY <1>2, <1>3, <1>4 DEF RowsFollowKeys, ClientsFollowKeys, WriterIsReady, ArtifactsAreWhole,
                          CleaningIsCommitted
<1>8. SelectionsAreWhole /\ SelectionsHaveRows /\ SweepIsOfExpired
  BY <1>4, <1>5, IdleIsSweep DEF SelectionsAreWhole, SelectionsHaveRows, SweepIsOfExpired
<1>9. SweepSpares
  BY <1>4, IdleIsSweep DEF SweepSpares
<1>10. ASSUME NEW k \in Keys PROVE OnTrack(k)
  BY <1>2, <1>3, <1>4 DEF OnTrack, LiveRows, Sessions, OnCourse, Accepted
<1>11. QED
  BY <1>6, <1>7, <1>8, <1>9, <1>10 DEF IInv, Safe, Sends

LEMMA StutterKeeps == IInv /\ UNCHANGED vars => IInv'
<1> SUFFICES ASSUME IInv, UNCHANGED vars PROVE IInv'
  OBVIOUS
<1>1. UNCHANGED <<uploads, received, dirs, selections, artifacts, writer, cleaning, sweep, client,
                  clock, opened, faults, raced, refusals>>
  BY DEF vars, serverVars
<1>2. Safe'
  BY <1>1 DEF IInv, Safe, TypeOK, RowsFollowKeys, Promised, ClientsFollowKeys, WriterIsReady, Ready,
              HasArtifact, ArtifactsAreWhole, SelectionsAreWhole, SelectionsHaveRows,
              SweepIsOfExpired, CleaningIsCommitted, Committed
<1>3. ASSUME NEW k PROVE Undisturbed(k)' <=> Undisturbed(k)
  BY <1>1 DEF Undisturbed, Verifies, Fingerprint, InKeyOrder
<1>4. ASSUME NEW k \in Keys PROVE OnTrack(k)'
  <2>1. SUFFICES ASSUME Undisturbed(k)' PROVE LiveRows(k)' /\ OnCourse(k)' /\ Accepted(k)'
    BY DEF OnTrack
  <2>2. LiveRows(k) /\ OnCourse(k) /\ Accepted(k)
    BY <1>3, <2>1 DEF IInv, Sends, OnTrack
  <2>3. RowsKept(k)
    BY <1>1 DEF RowsKept
  <2>4. QED
    BY <1>1, <2>2, <2>3, LiveStays, CourseStays DEF IInv, Accepted
<1>5. ASSUME NEW u \in sweep.chosen PROVE ~Undisturbed(uploads[u].key)'
  <2>1. PICK k : k = uploads[u].key
    OBVIOUS
  <2>2. ~Undisturbed(k)'
    BY <1>3, <2>1 DEF IInv, Sends, SweepSpares
  <2>3. QED
    BY <1>1, <2>1, <2>2
<1>6. QED
  BY <1>1, <1>2, <1>4, <1>5 DEF IInv, Sends, SweepSpares

LEMMA StepKeeps == IInv /\ Next => IInv'
<1> SUFFICES ASSUME IInv, Next PROVE IInv'
  OBVIOUS
<1>1. Safe /\ Sends
  BY DEF IInv
<1>2. ASSUME NEW k \in Keys, Send(k) \/ RequestLost(k) PROVE Safe' /\ Sends'
  BY <1>1, <1>2, SendsAreSafe, FirstStepsStay
<1>3. ASSUME NEW k \in Keys, CreateUpload(k) PROVE Safe' /\ Sends'
  BY <1>1, <1>3, CreateIsSafe, CreateStays
<1>4. ASSUME NEW k \in Keys, PutManifest(k) PROVE Safe' /\ Sends'
  BY <1>1, <1>4, ManifestIsSafe, ManifestStays
<1>5. ASSUME NEW k \in Keys, PutResource(k) PROVE Safe' /\ Sends'
  BY <1>1, <1>5, ResourceIsSafe, ResourceStays
<1>6. ASSUME NEW k \in Keys, Commit(k) PROVE Safe' /\ Sends'
  BY <1>1, <1>6, CommitIsSafe, CommitStays
<1>7. Publish \/ Finish => Safe' /\ Sends'
  BY <1>1, PublishIsSafe, PublishStays, FinishIsSafe, FinishStays
<1>8. ASSUME NEW u \in Uploads, CleanUp(u) PROVE Safe' /\ Sends'
  BY <1>1, <1>8, CleanUpIsSafe, CleanUpStays
<1>9. Crash \/ Tick => Safe' /\ Sends'
  BY <1>1, CrashIsSafe, TickIsSafe, CrashStays, TickStays
<1>10. SweepSelects \/ SweepCleans \/ SweepDeletes => Safe' /\ Sends'
  BY <1>1, SelectIsSafe, CleanIsSafe, DeleteIsSafe, SweepsStay
<1>11. Safe' /\ Sends'
  BY <1>2, <1>3, <1>4, <1>5, <1>6, <1>7, <1>8, <1>9, <1>10 DEF Next, ServerStep
<1>12. QED
  BY <1>11 DEF IInv

\* The inductive invariant holds in every reachable state of the selection
\* uploads, their commits and their sweeps.
THEOREM Invariance == Spec => []IInv
<1>1. IInv /\ [Next]_vars => IInv'
  BY StepKeeps, StutterKeeps
<1>2. QED
  BY <1>1, InitIInv, PTL DEF Spec

\* Rows, directories, the write lock, sweeps and sends are well formed, a row
\* is committed exactly when it names its Selection, and no two rows have the
\* same key (selection_uploads, selection_store.py).
THEOREM TypeCorrectness == Spec => []TypeOK
<1>1. IInv => TypeOK
  BY DEF IInv, Safe
<1>2. QED
  BY <1>1, Invariance, PTL

\* A published Selection has its artifact with each declared resource in it,
\* whatever sweeps, restarts and failed clean-ups removed meanwhile.
THEOREM PublishedAreWhole == Spec => []SelectionsAreWhole
<1>1. IInv => SelectionsAreWhole
  BY DEF IInv, Safe
<1>2. QED
  BY <1>1, Invariance, PTL

\* However often a send of one key is repeated, its commits end in the same
\* Selection, unless a sweep had selected the upload in the middle of one.
THEOREM CommitsConverge == Spec => []OneSelectionPerKey
<1>1. ASSUME IInv PROVE OneSelectionPerKey
  <2>1. SUFFICES ASSUME NEW i \in 1..Len(selections), NEW j \in 1..Len(selections),
                        selections[i].key = selections[j].key,
                        {selections[i].upload, selections[j].upload} \cap raced = {}
                 PROVE  i = j
    BY DEF OneSelectionPerKey
  <2>2. PICK u, v : u = selections[i].upload /\ v = selections[j].upload
    OBVIOUS
  <2>3. u \in Uploads /\ v \in Uploads
    BY <1>1, <2>2, SelectionFacts DEF IInv, Safe, TypeOK
  <2>4. /\ uploads[u] # None /\ uploads[u].key = selections[i].key /\ uploads[u].selection = i
        /\ uploads[v] # None /\ uploads[v].key = selections[j].key /\ uploads[v].selection = j
    BY <1>1, <2>1, <2>2 DEF IInv, Safe, SelectionsHaveRows
  <2>5. u = v
    BY <1>1, <2>1, <2>3, <2>4 DEF IInv, Safe, TypeOK
  <2>6. QED
    BY <2>4, <2>5
<1>2. QED
  BY <1>1, Invariance, PTL

\* A send whose upload has not expired and which lost no answer but those of
\* creates and commits it repeated is not refused, whatever other plugins send,
\* whatever of theirs is swept and wherever the server is restarted.
THEOREM UndisturbedSendsSucceed == Spec => []UndisturbedSendsAreAccepted
<1>1. ASSUME IInv PROVE UndisturbedSendsAreAccepted
  <2>1. ASSUME NEW k \in Keys, ~client[k].disturbed, Verifies(Manifest[k]) PROVE Accepted(k)
    <3>1. client[k].disturbed \in BOOLEAN
      BY <1>1 DEF IInv, Safe, TypeOK
    <3>2. client[k].disturbed = FALSE
      BY <2>1, <3>1
    <3>3. QED
      BY <1>1, <2>1, <3>2 DEF IInv, Sends, OnTrack, Undisturbed
  <2>2. QED
    BY <2>1 DEF UndisturbedSendsAreAccepted, Accepted
<1>2. QED
  BY <1>1, Invariance, PTL
=============================================================================
