------------------------- MODULE PluginFrameProofs -------------------------
(***************************************************************************)
(* Proofs about PluginFrame, for any selections and any number of clicks,  *)
(* messages under way, exports and uploads.                                *)
(***************************************************************************)
EXTENDS PluginFrame, SequenceTheorems, TLAPS

Manifests == Selections \cup {Unsendable}

Pending ==
  [attempt : Nat, generation : Nat, manifest : Selections, credential : Nat, key : Nat]

Page ==
  [state : {"ready", "loading", "paired", "error"}, credential : Nat \cup {None},
   shown : Manifests \cup {None}, key : Nat \cup {None}, generation : Nat,
   pending : Pending \cup {None}, run : Nat, uploading : BOOLEAN, view : Selections \cup {None}]

Upload ==
  [expected : Pending, run : Nat, over : BOOLEAN, manifest : Selections, resources : Selections]

Export == [attempt : Nat, of : Selections]

StorageCall ==
  [type : {"load", "unpair"}] \cup [type : {"pairing-credential"}, credential : Nat]

ToMain ==
  [type : {"selection-preflight", "unpair"}]
    \cup [type : {"pairing-credential"}, credential : Nat]
    \cup [type : {"selection-export"}, attempt : Nat]

ToPage ==
  [type : {"credential"}, credential : Nat]
    \cup [type : {"pairing-status"}, status : {"paired", "unpaired"}]
    \cup [type : {"selection-preflight"}, manifest : Manifests]
    \cup [type : {"selection-error"}, attempt : Nat]
    \cup [type : {"selection-export"}, attempt : Nat, manifest : Selections, resources : Selections]

PageTypes ==
  /\ page \in Page
  /\ uploads \subseteq Upload
  /\ pairings \in Nat /\ exchanges \in 0..pairings
  /\ preflights \in Nat /\ sends \in Nat /\ keys \in Nat

MainTypes ==
  /\ prepared \in Selections \cup {None}
  /\ exports \subseteq Export
  /\ stored \in Nat \cup {None}
  /\ storage \in Seq(StorageCall)

MessageTypes == toMain \in Seq(ToMain) /\ toPage \in Seq(ToPage)

\* The attempts under way were all made, so that the next one is new.
AttemptsUsed ==
  /\ \A e \in exports : e.attempt <= sends
  /\ \A i \in DOMAIN toMain : toMain[i].type = "selection-export" => toMain[i].attempt <= sends
  /\ \A i \in DOMAIN toPage : toPage[i].type = "selection-export" => toPage[i].attempt <= sends

\* Whether the page still waits for the export of that attempt, and whether
\* one of the first n messages to it will make it forget what it waits for.
Awaits(attempt) == page.pending # None /\ page.pending.attempt = attempt
Announced(n) == \E i \in 1..n : toPage[i].type = "selection-preflight"

\* An export the page waits for is of the selection the manifest will be read
\* of, or the page is about to hear of another preflight.
ExportsOfPrepared ==
  \A e \in exports : Awaits(e.attempt) => e.of = prepared \/ Announced(Len(toPage))

\* The same of an export that is on its way.
MessagesMatch ==
  \A i \in DOMAIN toPage :
    toPage[i].type = "selection-export" /\ Awaits(toPage[i].attempt) =>
      toPage[i].manifest = toPage[i].resources \/ Announced(i - 1)

\* What the page waits for is of the selection it shows, under its key.
PendingIsShown ==
  /\ page.pending # None => page.pending.manifest = page.shown /\ page.pending.key = page.key
  /\ page.key # None => page.key <= keys

\* An upload is of the selection its key was given to.
UploadsOfKeys ==
  \A u \in uploads :
    /\ u.expected # None /\ u.expected.manifest = u.manifest
    /\ u.expected.key <= keys
    /\ u.expected.key = page.key => u.manifest = page.shown

\* The inductive invariant.
IInv ==
  /\ PageTypes /\ MainTypes /\ MessageTypes
  /\ AttemptsUsed /\ ExportsOfPrepared /\ MessagesMatch
  /\ PendingIsShown /\ UploadsOfKeys
  /\ UploadsAreWhole /\ TaskIsOfShownSelection
-----------------------------------------------------------------------------
(* Lemmas about the operators of the model.                                *)

\* What forgetting an export, and forgetting a preflight with it, leave of a page.
LEMMA PagesForgotten ==
  ASSUME NEW p \in Page
  PROVE  /\ Invalidated(p) \in Page
         /\ Invalidated(p).pending = None
         /\ Invalidated(p).shown = p.shown /\ Invalidated(p).key = p.key
         /\ Invalidated(p).view = p.view
         /\ Cleared(p) \in Page
         /\ Cleared(p).pending = None
         /\ Cleared(p).shown = None /\ Cleared(p).key = None /\ Cleared(p).view = None
<1>1. /\ Invalidated(p) \in Page
      /\ Invalidated(p).pending = None
      /\ Invalidated(p).shown = p.shown /\ Invalidated(p).key = p.key
      /\ Invalidated(p).view = p.view
  <2>1. p.generation + 1 \in Nat /\ p.run + 1 \in Nat
    BY DEF Page
  <2>2. Invalidated(p) \in Page
    BY <2>1 DEF Page, Invalidated
  <2>3. {"generation", "pending", "run", "uploading", "shown", "key", "view"} \subseteq DOMAIN p
    BY DEF Page
  <2>4. QED
    BY <2>2, <2>3 DEF Invalidated
<1>2. PICK q : q = Invalidated(p)
  OBVIOUS
<1>3. q \in Page /\ {"shown", "key", "view", "pending"} \subseteq DOMAIN q
  BY <1>1, <1>2 DEF Page
<1>4. PICK c : c = [q EXCEPT !.shown = None, !.key = None, !.view = None]
  OBVIOUS
<1>5. c.pending = q.pending /\ c.shown = None /\ c.key = None /\ c.view = None
  BY <1>3, <1>4
<1>6. c \in Page
  BY <1>3, <1>4 DEF Page
<1>7. QED
  BY <1>1, <1>2, <1>4, <1>5, <1>6 DEF Cleared

\* Taking one message, or one call, out of a sequence keeps the others.
LEMMA Removed ==
  ASSUME NEW S, NEW s \in Seq(S), NEW i \in DOMAIN s
  PROVE  RemoveAt(s, i) \in Seq(S)
<1>1. i \in 1..Len(s) /\ Len(s) \in Nat /\ \A j \in 1..Len(s) : s[j] \in S
  BY ElementOfSeq, LenProperties
<1>2. SubSeq(s, 1, i - 1) \in Seq(S)
  <2>1. \A j \in 1..(i - 1) : s[j] \in S
    BY <1>1
  <2>2. QED
    BY <1>1, <2>1, SubSeqProperties
<1>3. SubSeq(s, i + 1, Len(s)) \in Seq(S)
  <2>1. \A j \in (i + 1)..Len(s) : s[j] \in S
    BY <1>1
  <2>2. QED
    BY <1>1, <2>1, SubSeqProperties
<1>4. QED
  BY <1>2, <1>3, ConcatProperties DEF RemoveAt
-----------------------------------------------------------------------------
(* What most steps do to the messages, and to the page.                    *)

Forgets == page'.pending \in {None, page.pending}

\* Nothing but an export asked for is posted to the sandbox.
PostsNoExport ==
  \/ toMain' = toMain
  \/ \E m \in ToMain : m.type # "selection-export" /\ toMain' = Append(toMain, m)

MessageParts == AttemptsUsed /\ ExportsOfPrepared /\ MessagesMatch
PageParts == PendingIsShown /\ UploadsOfKeys /\ UploadsAreWhole /\ TaskIsOfShownSelection

\* A step of the page that neither starts an export nor takes a message.
LEMMA PageActs ==
  ASSUME IInv, Forgets, PostsNoExport, UNCHANGED <<exports, prepared, toPage, sends>>
  PROVE  MessageParts'
<1>1. AttemptsUsed'
  <2>1. CASE toMain' = toMain
    BY <2>1 DEF IInv, AttemptsUsed
  <2>2. CASE toMain' # toMain
    <3>1. PICK m \in ToMain : m.type # "selection-export" /\ toMain' = Append(toMain, m)
      BY <2>2 DEF PostsNoExport
    <3>2. toMain \in Seq(ToMain)
      BY DEF IInv, MessageTypes
    <3>3. /\ DOMAIN toMain' = 1..(Len(toMain) + 1)
          /\ \A i \in 1..Len(toMain) : toMain'[i] = toMain[i]
          /\ toMain'[Len(toMain) + 1] = m
      BY <3>1, <3>2, AppendProperties
    <3>4. DOMAIN toMain = 1..Len(toMain) /\ Len(toMain) \in Nat
      BY <3>2, LenProperties
    <3>5. \A i \in DOMAIN toMain' :
            toMain'[i].type = "selection-export" => toMain'[i].attempt <= sends
      BY <3>1, <3>3, <3>4 DEF IInv, AttemptsUsed
    <3>6. QED
      BY <3>5 DEF IInv, AttemptsUsed
  <2>3. QED
    BY <2>1, <2>2
<1>2. ExportsOfPrepared'
  BY DEF IInv, Forgets, ExportsOfPrepared, Awaits, Announced
<1>3. MessagesMatch'
  BY DEF IInv, Forgets, MessagesMatch, Awaits, Announced
<1>4. QED
  BY <1>1, <1>2, <1>3 DEF MessageParts

\* A message taken: after a preflight, nothing is waited for.
LEMMA PageReceives ==
  ASSUME IInv, NEW type, Received(type), Forgets,
         type = "selection-preflight" => page'.pending = None
  PROVE  MessageParts' /\ (toPage' \in Seq(ToPage)) /\ Head(toPage) \in ToPage
<1>1. toPage \in Seq(ToPage) /\ toPage # << >>
  BY DEF IInv, MessageTypes, Received
<1>2. /\ toPage' \in Seq(ToPage) /\ Head(toPage) \in ToPage
      /\ Len(toPage') = Len(toPage) - 1
      /\ \A i \in 1..Len(toPage') : toPage'[i] = toPage[i + 1]
  BY <1>1, HeadTailProperties DEF Received
<1>3. /\ DOMAIN toPage = 1..Len(toPage) /\ Len(toPage) \in Nat
      /\ DOMAIN toPage' = 1..Len(toPage')
      /\ Len(toPage) > 0 /\ toPage[1].type = type
  BY <1>1, <1>2, LenProperties DEF Received
<1>4. AttemptsUsed'
  BY <1>2, <1>3 DEF IInv, AttemptsUsed, Received, mainVars
<1>5. ASSUME page'.pending # None, NEW n \in 0..Len(toPage), Announced(n)
      PROVE  Announced(n - 1)'
  <2>1. type # "selection-preflight"
    BY <1>5
  <2>2. PICK i \in 1..n : toPage[i].type = "selection-preflight"
    BY <1>5 DEF Announced
  <2>3. i - 1 \in 1..(n - 1)
    BY <1>3, <2>1, <2>2
  <2>4. i <= Len(toPage)
    BY <1>3, <1>2, <2>2
  <2>5. i - 1 \in 1..Len(toPage') /\ toPage'[i - 1] = toPage[(i - 1) + 1] /\ (i - 1) + 1 = i
    BY <1>2, <1>3, <2>3, <2>4
  <2>6. QED
    BY <2>2, <2>3, <2>5 DEF Announced
<1>6. ExportsOfPrepared'
  <2>1. ASSUME NEW e \in exports, Awaits(e.attempt)', e.of # prepared
        PROVE  Announced(Len(toPage))'
    <3>1. Awaits(e.attempt) /\ page'.pending # None
      BY <2>1 DEF Forgets, Awaits
    <3>2. Announced(Len(toPage))
      BY <2>1, <3>1 DEF IInv, ExportsOfPrepared
    <3>3. QED
      BY <1>2, <1>3, <1>5, <3>1, <3>2 DEF Announced
  <2>2. QED
    BY <2>1 DEF ExportsOfPrepared, Received, mainVars
<1>7. MessagesMatch'
  <2>1. ASSUME NEW i \in DOMAIN toPage', toPage'[i].type = "selection-export",
               page'.pending # None, page'.pending.attempt = toPage'[i].attempt,
               toPage'[i].manifest # toPage'[i].resources
        PROVE  Announced(i - 1)'
    <3>1. i \in 1..Len(toPage') /\ toPage'[i] = toPage[i + 1] /\ i + 1 \in DOMAIN toPage
      BY <1>2, <1>3, <2>1
    <3>2. Awaits(toPage[i + 1].attempt)
      BY <2>1, <3>1 DEF Forgets, Awaits
    <3>3. Announced((i + 1) - 1)
      BY <2>1, <3>1, <3>2 DEF IInv, MessagesMatch
    <3>4. i \in 0..Len(toPage) /\ (i + 1) - 1 = i
      BY <1>2, <1>3, <3>1
    <3>5. QED
      BY <1>5, <2>1, <3>3, <3>4
  <2>2. QED
    BY <1>2, <1>3, <2>1 DEF MessagesMatch, Awaits
<1>8. QED
  BY <1>2, <1>4, <1>6, <1>7 DEF MessageParts

\* The page goes on showing its selection, or nothing any more.
KeepsSelection ==
  /\ page'.key = page.key /\ page'.shown = page.shown
  /\ page'.view \in {None, page.view, page.shown}

DropsSelection ==
  page'.key = None /\ page'.shown = None /\ page'.view = None /\ page'.pending = None

SameUploads ==
  \A u \in uploads' : \E v \in uploads :
    u.expected = v.expected /\ u.manifest = v.manifest /\ u.resources = v.resources

\* A step that begins no upload and shows no other selection.
LEMMA PageKeeps ==
  ASSUME IInv, Forgets, SameUploads, KeepsSelection \/ DropsSelection, keys' = keys
  PROVE  PageParts'
<1>1. PendingIsShown'
  BY DEF IInv, PendingIsShown, Forgets, KeepsSelection, DropsSelection
<1>2. UploadsOfKeys'
  <2>1. ASSUME NEW u \in uploads'
        PROVE  /\ u.expected # None /\ u.expected.manifest = u.manifest
               /\ u.expected.key <= keys
               /\ u.expected.key = page'.key => u.manifest = page'.shown
    <3>1. PICK v \in uploads : u.expected = v.expected /\ u.manifest = v.manifest
      BY <2>1 DEF SameUploads
    <3>2. /\ v.expected # None /\ v.expected.manifest = v.manifest
          /\ v.expected.key <= keys
          /\ v.expected.key = page.key => v.manifest = page.shown
      BY <3>1 DEF IInv, UploadsOfKeys
    <3>3. v.expected.key # None
      BY NoneAssumption, <3>1 DEF IInv, PageTypes, Upload, Pending
    <3>4. QED
      BY <3>1, <3>2, <3>3 DEF KeepsSelection, DropsSelection
  <2>2. QED
    BY <2>1 DEF UploadsOfKeys
<1>3. UploadsAreWhole'
  BY DEF IInv, UploadsAreWhole, SameUploads
<1>4. TaskIsOfShownSelection'
  BY DEF IInv, TaskIsOfShownSelection, KeepsSelection, DropsSelection
<1>5. QED
  BY <1>1, <1>2, <1>3, <1>4 DEF PageParts

\* A step of the sandbox leaves the page alone.
LEMMA PageRests ==
  ASSUME IInv, UNCHANGED <<page, uploads, keys>>
  PROVE  PageParts'
<1>1. PageTypes /\ Forgets /\ SameUploads /\ KeepsSelection
  BY DEF IInv, Forgets, SameUploads, KeepsSelection
<1>2. QED
  BY <1>1, PageKeeps

\* The invariant is these parts.
LEMMA Parts ==
  ASSUME PageTypes', MainTypes', MessageTypes', MessageParts', PageParts'
  PROVE  IInv'
BY DEF IInv, MessageParts, PageParts
-----------------------------------------------------------------------------
\* The inductive invariant holds when the plugin opens.
LEMMA InitInvariant == Init => IInv
<1> SUFFICES ASSUME Init PROVE IInv
  OBVIOUS
<1>1. PageTypes
  <2>1. page \in Page
    BY DEF Init, Page
  <2>2. QED
    BY <2>1 DEF Init, PageTypes
<1>2. MainTypes /\ MessageTypes
  <2>1. [type |-> "load"] \in StorageCall
    BY DEF StorageCall
  <2>2. QED
    BY <2>1 DEF Init, MainTypes, MessageTypes
<1>3. AttemptsUsed /\ ExportsOfPrepared /\ MessagesMatch
  BY DEF Init, AttemptsUsed, ExportsOfPrepared, MessagesMatch
<1>4. PendingIsShown /\ UploadsOfKeys /\ UploadsAreWhole /\ TaskIsOfShownSelection
  BY DEF Init, PendingIsShown, UploadsOfKeys, UploadsAreWhole, TaskIsOfShownSelection
<1>5. QED
  BY <1>1, <1>2, <1>3, <1>4 DEF IInv
-----------------------------------------------------------------------------
(* The page's buttons.                                                     *)

LEMMA SubmitInvariant == IInv /\ Submit => IInv'
<1> SUFFICES ASSUME IInv, Submit PROVE IInv'
  OBVIOUS
<1>1. page \in Page /\ page' = [page EXCEPT !.state = "loading"]
  BY DEF IInv, PageTypes, Submit
<1>2. page' \in Page
  BY <1>1 DEF Page
<1>3. {"state", "pending", "shown", "key", "view"} \subseteq DOMAIN page
  BY <1>1 DEF Page
<1>4. Forgets /\ KeepsSelection
  BY <1>1, <1>3 DEF Forgets, KeepsSelection
<1>5. MessageParts'
  BY <1>4, PageActs DEF Submit, PostsNoExport, mainVars
<1>6. PageParts'
  BY <1>4, PageKeeps DEF Submit, SameUploads
<1>7. PageTypes' /\ MainTypes' /\ MessageTypes'
  BY <1>2 DEF IInv, PageTypes, MainTypes, MessageTypes, Submit, mainVars
<1>8. QED
  BY <1>5, <1>6, <1>7, Parts

LEMMA ExchangeSucceedsInvariant == IInv /\ ExchangeSucceeds => IInv'
<1> SUFFICES ASSUME IInv, ExchangeSucceeds PROVE IInv'
  OBVIOUS
<1>1. PICK credential \in {pairings - exchanges + 1} :
        /\ toMain' = Append(toMain, [type |-> "pairing-credential", credential |-> credential])
        /\ page' = [page EXCEPT !.credential = credential, !.state = "paired"]
  BY DEF ExchangeSucceeds, PostToFigma
<1>2. credential \in Nat /\ page \in Page
  BY <1>1 DEF IInv, PageTypes
<1>3. page' \in Page
  BY <1>1, <1>2 DEF Page
<1>4. {"state", "credential", "pending", "shown", "key", "view"} \subseteq DOMAIN page
  BY <1>2 DEF Page
<1>5. Forgets /\ KeepsSelection
  BY <1>1, <1>4 DEF Forgets, KeepsSelection
<1>6. [type |-> "pairing-credential", credential |-> credential] \in ToMain
  BY <1>2 DEF ToMain
<1>7. PostsNoExport
  BY <1>1, <1>6 DEF PostsNoExport
<1>8. MessageParts'
  BY <1>5, <1>7, PageActs DEF ExchangeSucceeds, mainVars, counters
<1>9. PageParts'
  BY <1>5, PageKeeps DEF ExchangeSucceeds, SameUploads, counters
<1>10. PageTypes' /\ MainTypes'
  BY <1>3 DEF IInv, PageTypes, MainTypes, ExchangeSucceeds, mainVars, counters
<1>11. MessageTypes'
  BY <1>1, <1>6, AppendProperties DEF IInv, MessageTypes, ExchangeSucceeds
<1>12. QED
  BY <1>8, <1>9, <1>10, <1>11, Parts

LEMMA ExchangeFailsInvariant == IInv /\ ExchangeFails => IInv'
<1> SUFFICES ASSUME IInv, ExchangeFails PROVE IInv'
  OBVIOUS
<1>1. page \in Page /\ page' = [page EXCEPT !.state = "error"]
  BY DEF IInv, PageTypes, ExchangeFails
<1>2. page' \in Page
  BY <1>1 DEF Page
<1>3. {"state", "pending", "shown", "key", "view"} \subseteq DOMAIN page
  BY <1>1 DEF Page
<1>4. Forgets /\ KeepsSelection
  BY <1>1, <1>3 DEF Forgets, KeepsSelection
<1>5. MessageParts'
  BY <1>4, PageActs DEF ExchangeFails, PostsNoExport, mainVars, counters
<1>6. PageParts'
  BY <1>4, PageKeeps DEF ExchangeFails, SameUploads, counters
<1>7. PageTypes' /\ MainTypes' /\ MessageTypes'
  BY <1>2 DEF IInv, PageTypes, MainTypes, MessageTypes, ExchangeFails, mainVars, counters
<1>8. QED
  BY <1>5, <1>6, <1>7, Parts

LEMMA PrepareInvariant == IInv /\ Prepare => IInv'
<1> SUFFICES ASSUME IInv, Prepare PROVE IInv'
  OBVIOUS
<1>1. Forgets /\ KeepsSelection /\ SameUploads
  BY DEF Prepare, Forgets, KeepsSelection, SameUploads
<1>2. [type |-> "selection-preflight"] \in ToMain
  BY DEF ToMain
<1>3. PostsNoExport
  BY <1>2 DEF Prepare, PostToFigma, PostsNoExport
<1>4. MessageParts'
  BY <1>1, <1>3, PageActs DEF Prepare, mainVars
<1>5. PageParts'
  BY <1>1, PageKeeps DEF Prepare
<1>6. PageTypes' /\ MainTypes'
  BY DEF IInv, PageTypes, MainTypes, Prepare, mainVars
<1>7. MessageTypes'
  BY <1>2, AppendProperties DEF IInv, MessageTypes, Prepare, PostToFigma
<1>8. QED
  BY <1>4, <1>5, <1>6, <1>7, Parts

LEMMA UnpairInvariant == IInv /\ Unpair => IInv'
<1> SUFFICES ASSUME IInv, Unpair PROVE IInv'
  OBVIOUS
<1>1. page \in Page /\ page' = [Cleared(page) EXCEPT !.credential = None, !.state = "ready"]
  BY DEF IInv, PageTypes, Unpair
<1>2. PICK p \in Page : p = Cleared(page)
  BY <1>1, PagesForgotten
<1>3. p.pending = None /\ p.shown = None /\ p.key = None /\ p.view = None
  BY <1>1, <1>2, PagesForgotten
<1>4. {"state", "credential", "pending", "shown", "key", "view"} \subseteq DOMAIN p
  BY <1>2 DEF Page
<1>5. page' \in Page
  BY <1>1, <1>2 DEF Page
<1>6. Forgets /\ DropsSelection
  BY <1>1, <1>2, <1>3, <1>4 DEF Forgets, DropsSelection
<1>7. [type |-> "unpair"] \in ToMain
  BY DEF ToMain
<1>8. PostsNoExport
  BY <1>7 DEF Unpair, PostToFigma, PostsNoExport
<1>9. MessageParts'
  BY <1>6, <1>8, PageActs DEF Unpair, mainVars, counters
<1>10. PageParts'
  BY <1>6, PageKeeps DEF Unpair, SameUploads, counters
<1>11. PageTypes' /\ MainTypes'
  BY <1>5 DEF IInv, PageTypes, MainTypes, Unpair, mainVars, counters
<1>12. MessageTypes'
  BY <1>7, AppendProperties DEF IInv, MessageTypes, Unpair, PostToFigma
<1>13. QED
  BY <1>9, <1>10, <1>11, <1>12, Parts

\* The attempt is new: no export and no message is of it yet.
LEMMA StartExportInvariant == IInv /\ StartExport => IInv'
<1> SUFFICES ASSUME IInv, StartExport PROVE IInv'
  OBVIOUS
<1>1. PICK pending :
        /\ pending = [attempt |-> sends + 1, generation |-> page.generation,
                      manifest |-> page.shown, credential |-> page.credential, key |-> page.key]
        /\ page' = [page EXCEPT !.pending = pending]
  BY DEF StartExport
<1>2. /\ page \in Page /\ sends \in Nat /\ sends' = sends + 1
      /\ toMain' = Append(toMain, [type |-> "selection-export", attempt |-> sends + 1])
      /\ page.shown \in Selections /\ page.credential # None /\ page.key # None
  BY DEF IInv, PageTypes, StartExport, PostToFigma
<1>3. pending \in Pending
  <2>1. page.credential \in Nat /\ page.key \in Nat /\ page.generation \in Nat
    BY <1>2 DEF Page
  <2>2. QED
    BY <1>1, <1>2, <2>1 DEF Pending
<1>4. page' \in Page
  BY <1>1, <1>2, <1>3 DEF Page
<1>5. {"pending", "shown", "key", "view"} \subseteq DOMAIN page
  BY <1>2 DEF Page
<1>6. /\ page'.pending = pending /\ page'.shown = page.shown /\ page'.key = page.key
      /\ page'.view = page.view
  BY <1>1, <1>5
<1>7. [type |-> "selection-export", attempt |-> sends + 1] \in ToMain
  BY <1>2 DEF ToMain
<1>8. toMain \in Seq(ToMain) /\ toMain' \in Seq(ToMain) /\ toPage \in Seq(ToPage)
  BY <1>2, <1>7, AppendProperties DEF IInv, MessageTypes
<1>9. AttemptsUsed'
  <2>1. /\ DOMAIN toMain' = 1..(Len(toMain) + 1) /\ DOMAIN toMain = 1..Len(toMain)
        /\ Len(toMain) \in Nat
        /\ \A i \in 1..Len(toMain) : toMain'[i] = toMain[i]
        /\ toMain'[Len(toMain) + 1] = [type |-> "selection-export", attempt |-> sends + 1]
    BY <1>2, <1>7, <1>8, AppendProperties, LenProperties
  <2>2. \A e \in exports : e.attempt \in Nat
    BY DEF IInv, MainTypes, Export
  <2>3. \A i \in DOMAIN toPage : toPage[i] \in ToPage
    BY <1>8, LenProperties, ElementOfSeq
  <2>4. \A i \in DOMAIN toPage :
          toPage[i].type = "selection-export" => toPage[i].attempt \in Nat
    BY <2>3 DEF ToPage
  <2>5. \A i \in DOMAIN toMain :
          toMain[i].type = "selection-export" => toMain[i].attempt \in Nat
    <3>1. \A i \in DOMAIN toMain : toMain[i] \in ToMain
      BY <1>8, LenProperties, ElementOfSeq
    <3>2. QED
      BY <3>1 DEF ToMain
  <2>6. \A e \in exports' : e.attempt <= sends'
    BY <1>2, <2>2 DEF IInv, AttemptsUsed, StartExport, mainVars
  <2>7. \A i \in DOMAIN toPage' : toPage'[i].type = "selection-export" => toPage'[i].attempt <= sends'
    BY <1>2, <2>4 DEF IInv, AttemptsUsed, StartExport
  <2>8. \A i \in DOMAIN toMain' : toMain'[i].type = "selection-export" => toMain'[i].attempt <= sends'
    <3>1. ASSUME NEW i \in 1..Len(toMain), toMain[i].type = "selection-export"
          PROVE  toMain[i].attempt <= sends + 1
      BY <1>2, <2>1, <2>5, <3>1 DEF IInv, AttemptsUsed
    <3>2. QED
      BY <1>2, <2>1, <3>1
  <2>9. QED
    BY <2>6, <2>7, <2>8 DEF AttemptsUsed
<1>10. pending.attempt = sends + 1
  BY <1>1
<1>11. ExportsOfPrepared'
  <2>1. \A e \in exports : e.attempt # sends + 1
    BY <1>2 DEF IInv, AttemptsUsed, MainTypes, Export
  <2>2. QED
    BY <1>6, <1>10, <2>1 DEF ExportsOfPrepared, Awaits, StartExport, mainVars
<1>12. MessagesMatch'
  <2>1. \A i \in DOMAIN toPage :
          toPage[i].type = "selection-export" => toPage[i].attempt # sends + 1
    BY <1>2 DEF IInv, AttemptsUsed
  <2>2. QED
    BY <1>6, <1>10, <2>1 DEF MessagesMatch, Awaits, StartExport
<1>13. PageParts'
  <2>1. PendingIsShown'
    BY <1>1, <1>6 DEF IInv, PendingIsShown, StartExport
  <2>2. UploadsOfKeys' /\ UploadsAreWhole' /\ TaskIsOfShownSelection'
    BY <1>6 DEF IInv, UploadsOfKeys, UploadsAreWhole, TaskIsOfShownSelection, StartExport
  <2>3. QED
    BY <2>1, <2>2 DEF PageParts
<1>14. PageTypes' /\ MainTypes' /\ MessageTypes'
  BY <1>2, <1>4, <1>8 DEF IInv, PageTypes, MainTypes, MessageTypes, StartExport, mainVars
<1>15. QED
  BY <1>9, <1>11, <1>12, <1>13, <1>14, Parts DEF MessageParts
-----------------------------------------------------------------------------
(* The page's messages, and the end of an upload.                          *)

\* What a message taken leaves to be shown of the types.
LEMMA ReceivedTypes ==
  ASSUME IInv, NEW type, Received(type), page' \in Page, uploads' \subseteq Upload,
         keys' \in Nat, toPage' \in Seq(ToPage)
  PROVE  PageTypes' /\ MainTypes' /\ MessageTypes'
BY DEF IInv, PageTypes, MainTypes, MessageTypes, Received, mainVars

LEMMA ReceiveCredentialInvariant == IInv /\ ReceiveCredential => IInv'
<1> SUFFICES ASSUME IInv, ReceiveCredential PROVE IInv'
  OBVIOUS
<1>1. /\ Received("credential") /\ page \in Page
      /\ uploads' = uploads /\ uploads \subseteq Upload /\ keys' = keys /\ keys \in Nat
  BY DEF ReceiveCredential, IInv, PageTypes
<1>2. PICK kept \in {page, Cleared(page)} :
        page' = [kept EXCEPT !.credential = Head(toPage).credential, !.state = "paired"]
  BY DEF ReceiveCredential
<1>3. kept \in Page
  BY <1>1, <1>2, PagesForgotten
<1>4. {"state", "credential", "pending", "shown", "key", "view"} \subseteq DOMAIN kept
  BY <1>3 DEF Page
<1>5. /\ page'.pending = kept.pending /\ page'.shown = kept.shown
      /\ page'.key = kept.key /\ page'.view = kept.view
  BY <1>2, <1>4
<1>6. Forgets /\ (KeepsSelection \/ DropsSelection)
  BY <1>1, <1>2, <1>5, PagesForgotten DEF Forgets, KeepsSelection, DropsSelection
<1>7. MessageParts' /\ toPage' \in Seq(ToPage) /\ Head(toPage) \in ToPage
  BY <1>1, <1>6, PageReceives
<1>8. Head(toPage).type = "credential"
  BY <1>1 DEF Received
<1>9. Head(toPage).credential \in Nat
  BY <1>7, <1>8 DEF ToPage
<1>10. page' \in Page
  BY <1>2, <1>3, <1>9 DEF Page
<1>11. PageParts'
  BY <1>1, <1>6, PageKeeps DEF SameUploads
<1>12. QED
  BY <1>1, <1>7, <1>10, <1>11, ReceivedTypes, Parts

LEMMA ReceiveStatusInvariant == IInv /\ ReceiveStatus => IInv'
<1> SUFFICES ASSUME IInv, ReceiveStatus PROVE IInv'
  OBVIOUS
<1>1. /\ Received("pairing-status") /\ page \in Page
      /\ uploads' = uploads /\ uploads \subseteq Upload /\ keys' = keys /\ keys \in Nat
  BY DEF ReceiveStatus, IInv, PageTypes
<1>2. PICK kept \in {page, Cleared(page)}, state \in {"paired", "ready"} :
        page' = [kept EXCEPT !.state = state]
  BY DEF ReceiveStatus
<1>3. kept \in Page
  BY <1>1, <1>2, PagesForgotten
<1>4. {"state", "pending", "shown", "key", "view"} \subseteq DOMAIN kept
  BY <1>3 DEF Page
<1>5. /\ page'.pending = kept.pending /\ page'.shown = kept.shown
      /\ page'.key = kept.key /\ page'.view = kept.view
  BY <1>2, <1>4
<1>6. Forgets /\ (KeepsSelection \/ DropsSelection)
  BY <1>1, <1>2, <1>5, PagesForgotten DEF Forgets, KeepsSelection, DropsSelection
<1>7. MessageParts' /\ toPage' \in Seq(ToPage)
  BY <1>1, <1>6, PageReceives
<1>8. page' \in Page
  BY <1>2, <1>3 DEF Page
<1>9. PageParts'
  BY <1>1, <1>6, PageKeeps DEF SameUploads
<1>10. QED
  BY <1>1, <1>7, <1>8, <1>9, ReceivedTypes, Parts

\* Another selection comes with a key no upload has, and without a task.
LEMMA ReceivePreflightInvariant == IInv /\ ReceivePreflight => IInv'
<1> SUFFICES ASSUME IInv, ReceivePreflight PROVE IInv'
  OBVIOUS
<1>1. /\ Received("selection-preflight") /\ page \in Page
      /\ uploads' = uploads /\ uploads \subseteq Upload /\ keys \in Nat
  BY DEF ReceivePreflight, IInv, PageTypes
<1>2. PICK selection : selection = Head(toPage).manifest
  OBVIOUS
<1>3. PICK p \in Page : p = Invalidated(page)
  BY <1>1, PagesForgotten
<1>4. p.pending = None /\ p.shown = page.shown /\ p.key = page.key /\ p.view = page.view
  BY <1>1, <1>3, PagesForgotten
<1>5. {"pending", "shown", "key", "view"} \subseteq DOMAIN p
  BY <1>3 DEF Page
<1>6. \/ /\ selection # page.shown /\ keys' = keys + 1
         /\ page' = [p EXCEPT !.shown = selection, !.key = keys + 1, !.view = None]
      \/ /\ selection = page.shown /\ keys' = keys
         /\ page' = [p EXCEPT !.shown = selection, !.key = p.key, !.view = p.view]
  BY <1>2, <1>3 DEF ReceivePreflight
<1>7. page'.pending = None /\ page'.shown = selection
  BY <1>4, <1>5, <1>6
<1>8. MessageParts' /\ toPage' \in Seq(ToPage) /\ Head(toPage) \in ToPage
  BY <1>1, <1>7, PageReceives DEF Forgets
<1>9. Head(toPage).type = "selection-preflight"
  BY <1>1 DEF Received
<1>10. selection \in Manifests
  BY <1>2, <1>8, <1>9 DEF ToPage
<1>11. page' \in Page /\ keys' \in Nat
  <2>1. keys + 1 \in Nat /\ p.key \in Nat \cup {None} /\ p.view \in Selections \cup {None}
    BY <1>1 DEF Page
  <2>2. ASSUME NEW key \in Nat \cup {None}, NEW view \in Selections \cup {None}
        PROVE  [p EXCEPT !.shown = selection, !.key = key, !.view = view] \in Page
    BY <1>3, <1>10 DEF Page
  <2>3. keys' \in Nat
    BY <1>1, <1>6, <2>1
  <2>4. CASE page' = [p EXCEPT !.shown = selection, !.key = keys + 1, !.view = None]
    <3>1. keys + 1 \in Nat \cup {None} /\ None \in Selections \cup {None}
      BY <2>1
    <3>2. QED
      BY <2>2, <2>3, <2>4, <3>1
  <2>5. CASE page' = [p EXCEPT !.shown = selection, !.key = p.key, !.view = p.view]
    BY <2>1, <2>2, <2>3, <2>5
  <2>6. QED
    BY <1>6, <2>4, <2>5
<1>12. PageParts'
  <2>1. CASE selection # page.shown
    <3>1. page'.key = keys + 1 /\ page'.view = None /\ keys' = keys + 1
      BY <1>5, <1>6, <2>1
    <3>2. \A u \in uploads : u.expected.key \in Nat
      BY <1>1 DEF Upload, Pending
    <3>3. PendingIsShown'
      BY <1>1, <1>7, <3>1 DEF PendingIsShown
    <3>4. UploadsOfKeys'
      <4>1. \A u \in uploads : u.expected.key <= keys + 1 /\ u.expected.key # keys + 1
        BY <1>1, <3>2 DEF IInv, UploadsOfKeys
      <4>2. QED
        BY <1>1, <3>1, <4>1 DEF IInv, UploadsOfKeys
    <3>5. UploadsAreWhole' /\ TaskIsOfShownSelection'
      BY <1>1, <3>1 DEF IInv, UploadsAreWhole, TaskIsOfShownSelection
    <3>6. QED
      BY <3>3, <3>4, <3>5 DEF PageParts
  <2>2. CASE selection = page.shown
    <3>1. page'.key = page.key /\ page'.view = page.view /\ keys' = keys
      BY <1>4, <1>5, <1>6, <2>2
    <3>2. Forgets /\ KeepsSelection
      BY <1>7, <2>2, <3>1 DEF Forgets, KeepsSelection
    <3>3. QED
      BY <1>1, <3>1, <3>2, PageKeeps DEF SameUploads
  <2>3. QED
    BY <2>1, <2>2
<1>13. QED
  BY <1>1, <1>8, <1>11, <1>12, ReceivedTypes, Parts

LEMMA ReceiveErrorInvariant == IInv /\ ReceiveError => IInv'
<1> SUFFICES ASSUME IInv, ReceiveError PROVE IInv'
  OBVIOUS
<1>1. /\ Received("selection-error") /\ page \in Page
      /\ uploads' = uploads /\ uploads \subseteq Upload /\ keys' = keys /\ keys \in Nat
  BY DEF ReceiveError, IInv, PageTypes
<1>2. page' \in {page, [page EXCEPT !.pending = None, !.uploading = FALSE]}
  BY DEF ReceiveError
<1>3. {"uploading", "pending", "shown", "key", "view"} \subseteq DOMAIN page
  BY <1>1 DEF Page
<1>4. Forgets /\ KeepsSelection
  BY <1>2, <1>3 DEF Forgets, KeepsSelection
<1>5. page' \in Page
  BY <1>1, <1>2 DEF Page
<1>6. MessageParts' /\ toPage' \in Seq(ToPage)
  BY <1>1, <1>4, PageReceives
<1>7. PageParts'
  BY <1>1, <1>4, PageKeeps DEF SameUploads
<1>8. QED
  BY <1>1, <1>5, <1>6, <1>7, ReceivedTypes, Parts

\* The message's manifest is the one shown, and so are the resources: no
\* message before it can be a preflight.
LEMMA ReceiveExportInvariant == IInv /\ ReceiveExport => IInv'
<1> SUFFICES ASSUME IInv, ReceiveExport PROVE IInv'
  OBVIOUS
<1>1. /\ Received("selection-export") /\ page \in Page
      /\ uploads \subseteq Upload /\ keys' = keys /\ keys \in Nat
  BY DEF ReceiveExport, IInv, PageTypes
<1>2. page' \in {page, [page EXCEPT !.run = @ + 1, !.uploading = TRUE]}
  BY DEF ReceiveExport
<1>3. {"run", "uploading", "pending", "shown", "key", "view"} \subseteq DOMAIN page
  BY <1>1 DEF Page
<1>4. /\ page'.pending = page.pending /\ page'.shown = page.shown
      /\ page'.key = page.key /\ page'.view = page.view
  BY <1>2, <1>3
<1>5. Forgets /\ KeepsSelection
  BY <1>4 DEF Forgets, KeepsSelection
<1>6. page' \in Page
  <2>1. page.run + 1 \in Nat
    BY <1>1 DEF Page
  <2>2. CASE page' = page
    BY <1>1, <2>2
  <2>3. CASE page' = [page EXCEPT !.run = @ + 1, !.uploading = TRUE]
    BY <1>1, <2>1, <2>3 DEF Page
  <2>4. QED
    BY <1>2, <2>2, <2>3
<1>7. MessageParts' /\ toPage' \in Seq(ToPage) /\ Head(toPage) \in ToPage
  BY <1>1, <1>5, PageReceives
<1>8. CASE ~Expected(Head(toPage))
  <2>1. uploads' = uploads
    BY <1>8 DEF ReceiveExport
  <2>2. PageParts'
    BY <1>1, <1>5, <2>1, PageKeeps DEF SameUploads
  <2>3. QED
    BY <1>1, <1>6, <1>7, <2>1, <2>2, ReceivedTypes, Parts
<1>9. CASE Expected(Head(toPage))
  <2>1. PICK upload :
          /\ upload = [expected |-> page.pending, run |-> page'.run, over |-> FALSE,
                       manifest |-> Head(toPage).manifest, resources |-> Head(toPage).resources]
          /\ uploads' = uploads \cup {upload}
    BY <1>9 DEF ReceiveExport
  <2>2. /\ page.pending # None /\ page.pending.manifest = Head(toPage).manifest
        /\ page.pending.attempt = Head(toPage).attempt
    BY <1>9 DEF Expected
  <2>3. page.pending \in Pending /\ page'.run \in Nat
    BY <1>1, <1>6, <2>2 DEF Page
  <2>4. Head(toPage).type = "selection-export"
    BY <1>1 DEF Received
  <2>5. Head(toPage).manifest \in Selections /\ Head(toPage).resources \in Selections
    BY <1>7, <2>4 DEF ToPage
  <2>6. upload \in Upload
    BY <2>1, <2>3, <2>5 DEF Upload
  <2>7. Head(toPage).manifest = Head(toPage).resources
    <3>1. 1 \in DOMAIN toPage /\ Head(toPage) = toPage[1]
      BY <1>1, LenProperties DEF IInv, MessageTypes, Received
    <3>2. Awaits(toPage[1].attempt) /\ toPage[1].type = "selection-export"
      BY <2>2, <2>4, <3>1 DEF Awaits
    <3>3. ~Announced(1 - 1)
      BY DEF Announced
    <3>4. QED
      BY <3>1, <3>2, <3>3 DEF IInv, MessagesMatch
  <2>8. /\ upload.expected = page.pending /\ upload.manifest = page.shown
        /\ upload.resources = upload.manifest
        /\ upload.expected.key = page.key /\ upload.expected.manifest = upload.manifest
    BY <2>1, <2>2, <2>7 DEF IInv, PendingIsShown
  <2>9. upload.expected.key <= keys
    <3>1. page.key # None
      BY <2>3, <2>8, NoneAssumption DEF Pending
    <3>2. QED
      BY <2>8, <3>1 DEF IInv, PendingIsShown
  <2>10. PendingIsShown' /\ TaskIsOfShownSelection'
    BY <1>1, <1>4 DEF IInv, PendingIsShown, TaskIsOfShownSelection
  <2>11. UploadsOfKeys'
    BY <1>1, <1>4, <2>1, <2>2, <2>8, <2>9 DEF IInv, UploadsOfKeys
  <2>12. UploadsAreWhole'
    BY <2>1, <2>8 DEF IInv, UploadsOfKeys, UploadsAreWhole
  <2>13. QED
    BY <1>1, <1>6, <1>7, <2>1, <2>6, <2>10, <2>11, <2>12, ReceivedTypes, Parts DEF PageParts
<1>10. QED
  BY <1>8, <1>9

\* An upload that ends is over, and else what it was.
LEMMA UploadOver ==
  ASSUME IInv, NEW upload \in uploads, UploadEnds(upload)
  PROVE  SameUploads /\ uploads' \subseteq Upload
<1>1. upload \in Upload
  BY DEF IInv, PageTypes
<1>2. PICK over : over = [upload EXCEPT !.over = TRUE]
  OBVIOUS
<1>3. over \in Upload
  BY <1>1, <1>2 DEF Upload
<1>4. {"expected", "manifest", "resources", "over"} \subseteq DOMAIN upload
  BY <1>1 DEF Upload
<1>5. /\ over.expected = upload.expected /\ over.manifest = upload.manifest
      /\ over.resources = upload.resources
  BY <1>2, <1>4
<1>6. uploads' = (uploads \ {upload}) \cup {over}
  BY <1>2 DEF UploadEnds
<1>7. QED
  BY <1>3, <1>5, <1>6 DEF SameUploads, IInv, PageTypes

\* Only the answer to the upload of what is still waited for shows a task.
LEMMA UploadSucceedsInvariant ==
  ASSUME IInv, NEW upload \in uploads, UploadSucceeds(upload)
  PROVE  IInv'
<1>1. /\ UploadEnds(upload) /\ page \in Page /\ upload \in Upload
      /\ keys' = keys
  BY DEF UploadSucceeds, UploadEnds, counters, IInv, PageTypes
<1>2. {"uploading", "pending", "shown", "key", "view"} \subseteq DOMAIN page
  BY <1>1 DEF Page
<1>3. page' \in Page /\ Forgets /\ KeepsSelection
  <2>1. CASE page' = page
    BY <1>1, <2>1 DEF Forgets, KeepsSelection
  <2>2. CASE page' # page
    <3>1. Current(upload) /\ page' = [page EXCEPT !.view = upload.manifest, !.uploading = FALSE]
      BY <2>2 DEF UploadSucceeds
    <3>2. upload.manifest \in Selections
      BY <1>1 DEF Upload
    <3>3. page' \in Page
      BY <1>1, <3>1, <3>2 DEF Page
    <3>4. page.pending = upload.expected /\ upload.expected # None
          /\ upload.expected.manifest = upload.manifest
      BY <3>1 DEF Current, IInv, UploadsOfKeys
    <3>5. upload.manifest = page.shown
      BY <3>4 DEF IInv, PendingIsShown
    <3>6. QED
      BY <1>2, <3>1, <3>3, <3>5 DEF Forgets, KeepsSelection
  <2>3. QED
    BY <2>1, <2>2
<1>4. MessageParts'
  BY <1>1, <1>3, PageActs DEF UploadEnds, PostsNoExport, mainVars, counters
<1>5. PageParts'
  BY <1>1, <1>3, UploadOver, PageKeeps
<1>6. PageTypes' /\ MainTypes' /\ MessageTypes'
  BY <1>1, <1>3, UploadOver
     DEF IInv, PageTypes, MainTypes, MessageTypes, UploadEnds, mainVars, counters
<1>7. QED
  BY <1>4, <1>5, <1>6, Parts

LEMMA UploadFailsInvariant ==
  ASSUME IInv, NEW upload \in uploads, UploadFails(upload)
  PROVE  IInv'
<1>1. /\ UploadEnds(upload) /\ page \in Page /\ keys' = keys
      /\ page' \in {page, [page EXCEPT !.pending = None, !.uploading = FALSE]}
  BY DEF UploadFails, UploadEnds, counters, IInv, PageTypes
<1>2. {"uploading", "pending", "shown", "key", "view"} \subseteq DOMAIN page
  BY <1>1 DEF Page
<1>3. page' \in Page
  BY <1>1 DEF Page
<1>4. Forgets /\ KeepsSelection
  BY <1>1, <1>2 DEF Forgets, KeepsSelection
<1>5. MessageParts'
  BY <1>1, <1>4, PageActs DEF UploadEnds, PostsNoExport, mainVars, counters
<1>6. PageParts'
  BY <1>1, <1>4, UploadOver, PageKeeps
<1>7. PageTypes' /\ MainTypes' /\ MessageTypes'
  BY <1>1, <1>3, UploadOver
     DEF IInv, PageTypes, MainTypes, MessageTypes, UploadEnds, mainVars, counters
<1>8. QED
  BY <1>5, <1>6, <1>7, Parts
-----------------------------------------------------------------------------
(* The sandbox.                                                            *)

\* A message handled leaves the others, and the page, as they were.
LEMMA MainHandles ==
  ASSUME IInv, NEW type, Handled(type)
  PROVE  /\ toMain \in Seq(ToMain) /\ toMain' \in Seq(ToMain)
         /\ Head(toMain) \in ToMain /\ Head(toMain).type = type
         /\ type = "selection-export" => Head(toMain).attempt <= sends
         /\ \A i \in DOMAIN toMain' :
              toMain'[i].type = "selection-export" => toMain'[i].attempt <= sends
         /\ PageParts' /\ PageTypes'
<1>1. toMain \in Seq(ToMain) /\ toMain # << >> /\ toMain' = Tail(toMain)
  BY DEF IInv, MessageTypes, Handled
<1>2. /\ toMain' \in Seq(ToMain) /\ Head(toMain) \in ToMain
      /\ Len(toMain') = Len(toMain) - 1
      /\ \A i \in 1..Len(toMain') : toMain'[i] = toMain[i + 1]
  BY <1>1, HeadTailProperties
<1>3. /\ DOMAIN toMain = 1..Len(toMain) /\ Len(toMain) \in Nat
      /\ DOMAIN toMain' = 1..Len(toMain')
      /\ 1 \in DOMAIN toMain /\ Head(toMain) = toMain[1]
  BY <1>1, <1>2, LenProperties
<1>4. Head(toMain).type = type
  BY DEF Handled
<1>5. \A i \in DOMAIN toMain' : i + 1 \in DOMAIN toMain
  BY <1>2, <1>3
<1>6. PageParts' /\ PageTypes'
  BY PageRests DEF Handled, counters, IInv, PageTypes
<1>7. QED
  BY <1>1, <1>2, <1>3, <1>4, <1>5, <1>6 DEF IInv, AttemptsUsed

\* The attempts of the messages to the page.
PostedUsed ==
  \A i \in DOMAIN toPage : toPage[i].type = "selection-export" => toPage[i].attempt <= sends

\* What posting to the page asks of an export, and what it keeps.
LEMMA MainPosts ==
  ASSUME IInv, UNCHANGED <<page, sends>>, NEW m \in ToPage, toPage' = Append(toPage, m),
         m.type = "selection-export" =>
           /\ m.attempt <= sends
           /\ Awaits(m.attempt) => m.manifest = m.resources \/ Announced(Len(toPage))
  PROVE  /\ toPage' \in Seq(ToPage)
         /\ Len(toPage) \in Nat /\ Len(toPage') = Len(toPage) + 1
         /\ toPage'[Len(toPage')] = m
         /\ Announced(Len(toPage)) => Announced(Len(toPage))'
         /\ PostedUsed' /\ MessagesMatch'
<1>1. toPage \in Seq(ToPage)
  BY DEF IInv, MessageTypes
<1>2. /\ toPage' \in Seq(ToPage)
      /\ Len(toPage') = Len(toPage) + 1
      /\ \A i \in 1..Len(toPage) : toPage'[i] = toPage[i]
      /\ toPage'[Len(toPage) + 1] = m
      /\ DOMAIN toPage = 1..Len(toPage) /\ Len(toPage) \in Nat
      /\ DOMAIN toPage' = 1..(Len(toPage) + 1)
  BY <1>1, AppendProperties, LenProperties
<1>3. ASSUME NEW n \in 0..Len(toPage), Announced(n)
      PROVE  \E i \in 1..n : toPage'[i].type = "selection-preflight"
  <2>1. PICK i \in 1..n : toPage[i].type = "selection-preflight"
    BY <1>3 DEF Announced
  <2>2. i \in 1..Len(toPage)
    BY <1>2, <2>1
  <2>3. toPage'[i].type = "selection-preflight"
    BY <1>2, <2>1, <2>2
  <2>4. QED
    BY <2>1, <2>3
<1>4. Announced(Len(toPage)) => Announced(Len(toPage))'
  <2>1. ASSUME Announced(Len(toPage)) PROVE Announced(Len(toPage))'
    <3>1. PICK i \in 1..Len(toPage) : toPage'[i].type = "selection-preflight"
      BY <1>2, <1>3, <2>1
    <3>2. i \in 1..Len(toPage')
      BY <1>2, <3>1
    <3>3. QED
      BY <3>1, <3>2 DEF Announced
  <2>2. QED
    BY <2>1
<1>5. PostedUsed'
  BY <1>2 DEF IInv, AttemptsUsed, PostedUsed
<1>6. MessagesMatch'
  <2>1. ASSUME NEW i \in 1..(Len(toPage) + 1), toPage'[i].type = "selection-export",
               page.pending # None, page.pending.attempt = toPage'[i].attempt,
               toPage'[i].manifest # toPage'[i].resources
        PROVE  \E j \in 1..(i - 1) : toPage'[j].type = "selection-preflight"
    <3>1. i - 1 \in 0..Len(toPage)
      BY <1>2
    <3>2. CASE i = Len(toPage) + 1
      <4>1. Awaits(m.attempt) /\ m.manifest # m.resources /\ m.type = "selection-export"
        BY <1>2, <2>1, <3>2 DEF Awaits
      <4>2. Announced(Len(toPage)) /\ i - 1 = Len(toPage)
        BY <1>2, <3>2, <4>1
      <4>3. QED
        BY <1>3, <3>1, <4>2
    <3>3. CASE i # Len(toPage) + 1
      <4>1. i \in 1..Len(toPage) /\ toPage'[i] = toPage[i]
        BY <1>2, <3>3
      <4>2. Awaits(toPage[i].attempt)
        BY <2>1, <4>1 DEF Awaits
      <4>3. Announced(i - 1)
        BY <1>2, <2>1, <4>1, <4>2 DEF IInv, MessagesMatch
      <4>4. QED
        BY <1>3, <3>1, <4>3
    <3>4. QED
      BY <3>2, <3>3
  <2>2. QED
    BY <1>2, <2>1 DEF MessagesMatch, Awaits, Announced
<1>7. QED
  BY <1>2, <1>4, <1>5, <1>6

\* A preflight changes what exports under way will be told to be of, and
\* announces that to the page.
LEMMA HandlePreflightInvariant == IInv /\ HandlePreflight => IInv'
<1> SUFFICES ASSUME IInv, HandlePreflight PROVE IInv'
  OBVIOUS
<1>1. PICK selection \in Manifests :
        /\ prepared' = IF selection = Unsendable THEN None ELSE selection
        /\ toPage' = Append(toPage, [type |-> "selection-preflight", manifest |-> selection])
  BY DEF HandlePreflight, PostToHosted, Manifests
<1>2. PICK m : m = [type |-> "selection-preflight", manifest |-> selection]
  OBVIOUS
<1>3. m \in ToPage /\ m.type = "selection-preflight"
  BY <1>1, <1>2 DEF ToPage
<1>4. /\ Handled("selection-preflight")
      /\ page' = page /\ sends' = sends /\ exports' = exports /\ storage' = storage
      /\ stored' = stored
  BY DEF HandlePreflight, Handled, counters
<1>5. /\ toPage' \in Seq(ToPage) /\ Len(toPage) \in Nat /\ Len(toPage') = Len(toPage) + 1
      /\ toPage'[Len(toPage')] = m
      /\ PostedUsed' /\ MessagesMatch'
  BY <1>1, <1>2, <1>3, <1>4, MainPosts
<1>6. AttemptsUsed'
  BY <1>4, <1>5, MainHandles DEF IInv, AttemptsUsed, PostedUsed
<1>7. Announced(Len(toPage))'
  <2>1. Len(toPage') \in 1..Len(toPage')
    BY <1>5
  <2>2. QED
    BY <1>3, <1>5, <2>1 DEF Announced
<1>8. ExportsOfPrepared'
  BY <1>7 DEF ExportsOfPrepared
<1>9. MainTypes' /\ MessageTypes'
  <2>1. prepared' \in Selections \cup {None}
    BY <1>1 DEF Manifests
  <2>2. QED
    BY <1>4, <1>5, <2>1, MainHandles DEF IInv, MainTypes, MessageTypes
<1>10. QED
  BY <1>4, <1>5, <1>6, <1>8, <1>9, MainHandles, Parts DEF MessageParts

LEMMA HandleExportInvariant == IInv /\ HandleExport => IInv'
<1> SUFFICES ASSUME IInv, HandleExport PROVE IInv'
  OBVIOUS
<1>1. /\ Handled("selection-export")
      /\ page' = page /\ sends' = sends /\ prepared' = prepared /\ storage' = storage
      /\ stored' = stored
  BY DEF HandleExport, Handled, counters
<1>2. PICK attempt : attempt = Head(toMain).attempt
  OBVIOUS
<1>3. attempt \in Nat /\ attempt <= sends
  <2>1. Head(toMain) \in ToMain /\ Head(toMain).type = "selection-export"
    BY <1>1, MainHandles
  <2>2. QED
    BY <1>1, <1>2, <2>1, MainHandles DEF ToMain
<1>4. CASE prepared = None
  <2>1. exports' = exports /\ toPage' = Append(toPage, ExportFailed(attempt))
    BY <1>2, <1>4 DEF HandleExport, PostToHosted
  <2>2. ExportFailed(attempt) \in ToPage /\ ExportFailed(attempt).type = "selection-error"
    BY <1>3 DEF ExportFailed, ToPage
  <2>3. /\ toPage' \in Seq(ToPage) /\ PostedUsed' /\ MessagesMatch'
        /\ Announced(Len(toPage)) => Announced(Len(toPage))'
    BY <1>1, <2>1, <2>2, MainPosts
  <2>4. AttemptsUsed'
    BY <1>1, <2>1, <2>3, MainHandles DEF IInv, AttemptsUsed, PostedUsed
  <2>5. ExportsOfPrepared'
    BY <1>1, <2>1, <2>3 DEF IInv, ExportsOfPrepared, Awaits
  <2>6. MainTypes' /\ MessageTypes'
    BY <1>1, <2>1, <2>3, MainHandles DEF IInv, MainTypes, MessageTypes
  <2>7. QED
    BY <1>1, <2>3, <2>4, <2>5, <2>6, MainHandles, Parts DEF MessageParts
<1>5. CASE prepared # None
  <2>1. /\ exports' = exports \cup {[attempt |-> attempt, of |-> prepared]}
        /\ toPage' = toPage
    BY <1>2, <1>5 DEF HandleExport
  <2>2. [attempt |-> attempt, of |-> prepared] \in Export
    BY <1>3, <1>5 DEF IInv, MainTypes, Export
  <2>3. AttemptsUsed'
    BY <1>1, <1>3, <2>1, MainHandles DEF IInv, AttemptsUsed
  <2>4. ExportsOfPrepared'
    BY <1>1, <2>1 DEF IInv, ExportsOfPrepared, Awaits, Announced
  <2>5. MessagesMatch'
    BY <1>1, <2>1 DEF IInv, MessagesMatch, Awaits, Announced
  <2>6. MainTypes' /\ MessageTypes'
    BY <1>1, <2>1, <2>2, MainHandles DEF IInv, MainTypes, MessageTypes
  <2>7. QED
    BY <1>1, <2>3, <2>4, <2>5, <2>6, MainHandles, Parts DEF MessageParts
<1>6. QED
  BY <1>4, <1>5

LEMMA HandlePairingInvariant == IInv /\ HandlePairing => IInv'
<1> SUFFICES ASSUME IInv, HandlePairing PROVE IInv'
  OBVIOUS
<1>1. PICK type \in {"pairing-credential", "unpair"} : Handled(type)
  BY DEF HandlePairing
<1>2. /\ page' = page /\ sends' = sends /\ prepared' = prepared /\ exports' = exports
      /\ toPage' = toPage /\ stored' = stored /\ storage' = Append(storage, Head(toMain))
  BY <1>1 DEF HandlePairing, Handled, counters
<1>3. Head(toMain) \in StorageCall
  <2>1. Head(toMain) \in ToMain /\ Head(toMain).type = type
    BY <1>1, MainHandles
  <2>2. QED
    BY <1>1, <2>1 DEF ToMain, StorageCall
<1>4. AttemptsUsed'
  BY <1>1, <1>2, MainHandles DEF IInv, AttemptsUsed
<1>5. ExportsOfPrepared' /\ MessagesMatch'
  BY <1>2 DEF IInv, ExportsOfPrepared, MessagesMatch, Awaits, Announced
<1>6. MainTypes' /\ MessageTypes'
  BY <1>1, <1>2, <1>3, MainHandles, AppendProperties DEF IInv, MainTypes, MessageTypes
<1>7. QED
  BY <1>1, <1>4, <1>5, <1>6, MainHandles, Parts DEF MessageParts

\* What an export ends in is of one selection, unless a preflight since it
\* began is on its way to the page.
LEMMA ExportEndsInvariant ==
  ASSUME IInv, NEW export \in exports, ExportEnds(export)
  PROVE  IInv'
<1>1. /\ page' = page /\ sends' = sends /\ prepared' = prepared /\ storage' = storage
      /\ stored' = stored /\ toMain' = toMain /\ exports' = exports \ {export}
      /\ uploads' = uploads /\ keys' = keys
  BY DEF ExportEnds, counters
<1>2. export \in Export /\ export.attempt <= sends
  BY DEF IInv, MainTypes, AttemptsUsed
<1>3. PICK m :
        /\ toPage' = Append(toPage, m)
        /\ \/ prepared # None
              /\ m = [type |-> "selection-export", attempt |-> export.attempt,
                      manifest |-> prepared, resources |-> export.of]
           \/ m = [type |-> "selection-error", attempt |-> export.attempt]
  BY DEF ExportEnds, PostToHosted, ExportFailed
<1>4. m \in ToPage
  BY <1>2, <1>3 DEF IInv, MainTypes, Export, ToPage
<1>5. m.type = "selection-export" =>
        /\ m.attempt <= sends
        /\ Awaits(m.attempt) => m.manifest = m.resources \/ Announced(Len(toPage))
  <2>1. ASSUME m.type = "selection-export"
        PROVE  m.attempt = export.attempt /\ m.manifest = prepared /\ m.resources = export.of
    BY <1>3, <2>1
  <2>2. QED
    BY <1>2, <2>1 DEF IInv, ExportsOfPrepared
<1>6. /\ toPage' \in Seq(ToPage) /\ PostedUsed' /\ MessagesMatch'
      /\ Announced(Len(toPage)) => Announced(Len(toPage))'
  BY <1>1, <1>3, <1>4, <1>5, MainPosts
<1>7. AttemptsUsed'
  BY <1>1, <1>6 DEF IInv, AttemptsUsed, PostedUsed
<1>8. ExportsOfPrepared'
  BY <1>1, <1>6 DEF IInv, ExportsOfPrepared, Awaits
<1>9. PageTypes' /\ MainTypes' /\ MessageTypes'
  BY <1>1, <1>6 DEF IInv, PageTypes, MainTypes, MessageTypes, ExportEnds, counters
<1>10. QED
  BY <1>1, <1>6, <1>7, <1>8, <1>9, PageRests, Parts DEF MessageParts

LEMMA StorageEndsInvariant ==
  ASSUME IInv, NEW i \in DOMAIN storage, StorageEnds(i)
  PROVE  IInv'
<1>1. /\ page' = page /\ sends' = sends /\ prepared' = prepared /\ exports' = exports
      /\ toMain' = toMain /\ uploads' = uploads /\ keys' = keys
      /\ storage' = RemoveAt(storage, i)
  BY DEF StorageEnds, counters
<1>2. storage \in Seq(StorageCall) /\ stored \in Nat \cup {None}
  BY DEF IInv, MainTypes
<1>3. storage[i] \in StorageCall /\ storage' \in Seq(StorageCall)
  BY <1>1, <1>2, Removed, LenProperties, ElementOfSeq
<1>4. stored' \in Nat \cup {None}
  <2>1. \/ stored' = stored
        \/ storage[i].type = "pairing-credential" /\ stored' = storage[i].credential
        \/ stored' = None
    BY <1>3 DEF StorageEnds, StorageCall
  <2>2. storage[i].type = "pairing-credential" => storage[i].credential \in Nat
    BY <1>3 DEF StorageCall
  <2>3. QED
    BY <1>2, <2>1, <2>2
<1>5. PageTypes' /\ MainTypes'
  BY <1>1, <1>3, <1>4 DEF IInv, PageTypes, MainTypes, StorageEnds, counters
<1>6. CASE toPage' = toPage
  <2>1. MessageTypes' /\ MessageParts'
    BY <1>1, <1>6
       DEF IInv, MessageTypes, MessageParts, AttemptsUsed, ExportsOfPrepared, MessagesMatch,
           Awaits, Announced
  <2>2. QED
    BY <1>1, <1>5, <2>1, PageRests, Parts
<1>7. CASE toPage' # toPage
  <2>1. PICK m \in {[type |-> "credential", credential |-> stored],
                    [type |-> "pairing-status", status |-> "paired"],
                    [type |-> "pairing-status", status |-> "unpaired"]} :
          /\ toPage' = Append(toPage, m)
          /\ m.type = "credential" => stored # None
    BY <1>7 DEF StorageEnds, PostToHosted
  <2>2. m \in ToPage /\ m.type # "selection-export"
    BY <1>2, <2>1 DEF ToPage
  <2>3. /\ toPage' \in Seq(ToPage) /\ PostedUsed' /\ MessagesMatch'
        /\ Announced(Len(toPage)) => Announced(Len(toPage))'
    BY <1>1, <2>1, <2>2, MainPosts
  <2>4. AttemptsUsed'
    BY <1>1, <2>3 DEF IInv, AttemptsUsed, PostedUsed
  <2>5. ExportsOfPrepared'
    BY <1>1, <2>3 DEF IInv, ExportsOfPrepared, Awaits
  <2>6. MessageTypes'
    BY <1>1, <2>3 DEF IInv, MessageTypes
  <2>7. QED
    BY <1>1, <1>5, <2>3, <2>4, <2>5, <2>6, PageRests, Parts DEF MessageParts
<1>8. QED
  BY <1>6, <1>7
-----------------------------------------------------------------------------
\* Every step preserves the invariant.
LEMMA StepInvariant == IInv /\ [Next]_vars => IInv'
<1> SUFFICES ASSUME IInv, [Next]_vars PROVE IInv'
  OBVIOUS
<1>1. CASE PageStep
  BY <1>1, SubmitInvariant, ExchangeSucceedsInvariant, ExchangeFailsInvariant, PrepareInvariant,
     StartExportInvariant, UnpairInvariant, ReceiveCredentialInvariant, ReceiveStatusInvariant,
     ReceivePreflightInvariant, ReceiveErrorInvariant, ReceiveExportInvariant,
     UploadSucceedsInvariant, UploadFailsInvariant DEF PageStep
<1>2. CASE MainStep
  BY <1>2, HandlePreflightInvariant, HandleExportInvariant, HandlePairingInvariant,
     ExportEndsInvariant, StorageEndsInvariant DEF MainStep
<1>3. CASE UNCHANGED vars
  BY <1>3 DEF vars, mainVars, counters, IInv, PageTypes, MainTypes, MessageTypes, AttemptsUsed,
     ExportsOfPrepared, MessagesMatch, Awaits, Announced, PendingIsShown, UploadsOfKeys,
     UploadsAreWhole, TaskIsOfShownSelection
<1>4. QED
  BY <1>1, <1>2, <1>3 DEF Next

\* The inductive invariant holds in every reachable state.
THEOREM Invariance == Spec => []IInv
BY InitInvariant, StepInvariant, PTL DEF Spec

\* Whatever preflights, exports, storage calls and answers overlap, an upload
\* holds the resources of its manifest, and a key is used for one manifest.
THEOREM UploadsHoldTogether == Spec => []UploadsAreWhole
BY Invariance, PTL DEF IInv

\* However late an answer comes, the task shown is of the selection shown.
THEOREM TaskBelongsToSelection == Spec => []TaskIsOfShownSelection
BY Invariance, PTL DEF IInv
=============================================================================
