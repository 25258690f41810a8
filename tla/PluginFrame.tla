---------------------------- MODULE PluginFrame ----------------------------
(***************************************************************************)
(* The Figma plugin: the sandbox, which may read the document (code.ts,    *)
(* and pairing.ts behind it), and the hosted page in its window, which may *)
(* talk to the server (PluginFramePage.tsx).  Each is an event loop that   *)
(* runs a handler at a time, up to its awaits; they post messages to one   *)
(* another, and these arrive in order.  Of the server the page sees only   *)
(* the outcome of an exchange or of an upload.                             *)
(***************************************************************************)
EXTENDS Integers, SequencesExt

CONSTANTS
  Selections,  \* what the designer may have selected, as serialized manifests
  Unsendable,  \* a selection the preflight refuses
  MaxPairings, MaxPreflights, MaxSends, \* bounds: clicks on each button
  None

ASSUME BoundsAssumption == {MaxPairings, MaxPreflights, MaxSends} \subseteq Nat
ASSUME NoneAssumption == None \notin Selections \cup {Unsendable} \cup Nat /\ Unsendable \notin Selections

VARIABLES
  page,      \* state, credential, preflight shown, idempotency key, generation,
             \* pending export, upload run, uploading, and the task it shows
  exchanges, \* exchanges of a code without an answer
  uploads,   \* every upload begun: its pending export, its run, what it sends
  prepared,  \* the sandbox's last preflight: manifest and lookup, one selection
  exports,   \* exports waiting for their assets
  stored,    \* the credential in clientStorage
  storage,   \* calls of clientStorage without an answer
  toMain, toPage,      \* messages under way
  pairings, preflights, sends, keys  \* clicks; keys also counts random UUIDs

mainVars == <<prepared, exports, stored, storage>>
counters == <<pairings, preflights, sends, keys>>
vars == <<page, exchanges, uploads, mainVars, toMain, toPage, counters>>

\* Credential 0 was stored when the plugin was last open; startPlugin loads it.
Init ==
  /\ page = [state |-> "ready", credential |-> None, shown |-> None, key |-> None, generation |-> 0,
             pending |-> None, run |-> 0, uploading |-> FALSE, view |-> None]
  /\ exchanges = 0 /\ uploads = {}
  /\ prepared = None /\ exports = {} /\ stored \in {None, 0}
  /\ storage = <<[type |-> "load"]>>
  /\ toMain = << >> /\ toPage = << >>
  /\ pairings = 0 /\ preflights = 0 /\ sends = 0 /\ keys = 0

PostToFigma(message) == toMain' = Append(toMain, message)
PostToHosted(message) == toPage' = Append(toPage, message)

Invalidated(p) ==
  [p EXCEPT !.generation = @ + 1, !.pending = None, !.run = @ + 1, !.uploading = FALSE]

\* The signature kept beside the preflight is None exactly when shown is.
Cleared(p) == [Invalidated(p) EXCEPT !.shown = None, !.key = None, !.view = None]
-----------------------------------------------------------------------------
(* The page: its buttons.                                                  *)

Submit ==
  /\ page.state \in {"ready", "error"}
  /\ pairings < MaxPairings /\ pairings' = pairings + 1
  /\ page' = [page EXCEPT !.state = "loading"]
  /\ exchanges' = exchanges + 1
  /\ UNCHANGED <<uploads, mainVars, toMain, toPage, preflights, sends, keys>>

\* The credential a code is exchanged for is new.
ExchangeSucceeds ==
  /\ exchanges > 0 /\ exchanges' = exchanges - 1
  /\ \E credential \in {pairings - exchanges + 1} :
       /\ PostToFigma([type |-> "pairing-credential", credential |-> credential])
       /\ page' = [page EXCEPT !.credential = credential, !.state = "paired"]
  /\ UNCHANGED <<uploads, mainVars, toPage, counters>>

ExchangeFails ==
  /\ exchanges > 0 /\ exchanges' = exchanges - 1
  /\ page' = [page EXCEPT !.state = "error"]
  /\ UNCHANGED <<uploads, mainVars, toMain, toPage, counters>>

\* The button is there until a preflight is shown.
Prepare ==
  /\ page.state = "paired" /\ page.shown = None
  /\ preflights < MaxPreflights /\ preflights' = preflights + 1
  /\ PostToFigma([type |-> "selection-preflight"])
  /\ UNCHANGED <<page, exchanges, uploads, mainVars, toPage, pairings, sends, keys>>

StartExport ==
  /\ page.state = "paired"
  /\ page.shown \in Selections
  /\ page.pending = None /\ ~page.uploading
  /\ page.credential # None /\ page.key # None
  /\ sends < MaxSends /\ sends' = sends + 1
  /\ page' = [page EXCEPT !.pending =
       [attempt |-> sends', generation |-> page.generation, manifest |-> page.shown,
        credential |-> page.credential, key |-> page.key]]
  /\ PostToFigma([type |-> "selection-export", attempt |-> sends'])
  /\ UNCHANGED <<exchanges, uploads, mainVars, toPage, pairings, preflights, keys>>

Unpair ==
  /\ page.state = "paired"
  /\ PostToFigma([type |-> "unpair"])
  /\ page' = [Cleared(page) EXCEPT !.credential = None, !.state = "ready"]
  /\ UNCHANGED <<exchanges, uploads, mainVars, toPage, counters>>
-----------------------------------------------------------------------------
(* The page: messages and the end of an upload.                            *)

Received(type) ==
  /\ toPage # << >> /\ Head(toPage).type = type
  /\ toPage' = Tail(toPage)
  /\ UNCHANGED <<exchanges, mainVars, toMain, pairings, preflights, sends>>

ReceiveCredential ==
  /\ Received("credential")
  /\ LET kept == IF page.credential \notin {None, Head(toPage).credential} THEN Cleared(page) ELSE page
     IN  page' = [kept EXCEPT !.credential = Head(toPage).credential, !.state = "paired"]
  /\ UNCHANGED <<uploads, keys>>

ReceiveStatus ==
  /\ Received("pairing-status")
  /\ page' = IF Head(toPage).status = "paired" THEN [page EXCEPT !.state = "paired"]
             ELSE [Cleared(page) EXCEPT !.state = "ready"]
  /\ UNCHANGED <<uploads, keys>>

\* A selection other than the one shown gets a key of its own.
ReceivePreflight ==
  /\ Received("selection-preflight")
  /\ LET selection == Head(toPage).manifest
         other == selection # page.shown
     IN  /\ keys' = IF other THEN keys + 1 ELSE keys
         /\ page' = [Invalidated(page) EXCEPT !.shown = selection,
                       !.key = IF other THEN keys' ELSE @, !.view = IF other THEN None ELSE @]
  /\ UNCHANGED uploads

ReceiveError ==
  /\ Received("selection-error")
  /\ page' = IF page.pending # None /\ page.pending.attempt = Head(toPage).attempt
                /\ page.pending.generation = page.generation
             THEN [page EXCEPT !.pending = None, !.uploading = FALSE] ELSE page
  /\ UNCHANGED <<uploads, keys>>

\* Mutant: the attempt of the export is not compared.
ExpectedAnyAttempt(message) ==
  /\ page.pending # None /\ ~page.uploading
  /\ page.pending.generation = page.generation
  /\ page.pending.credential = page.credential /\ page.pending.key = page.key
  /\ page.pending.manifest = message.manifest

Expected(message) ==
  /\ page.pending # None /\ ~page.uploading
  /\ page.pending.generation = page.generation
  /\ page.pending.attempt = message.attempt
  /\ page.pending.credential = page.credential /\ page.pending.key = page.key
  /\ page.pending.manifest = message.manifest

ReceiveExport ==
  /\ Received("selection-export")
  /\ IF Expected(Head(toPage))
     THEN /\ page' = [page EXCEPT !.run = @ + 1, !.uploading = TRUE]
          /\ uploads' = uploads \cup
               {[expected |-> page.pending, run |-> page'.run, over |-> FALSE,
                 manifest |-> Head(toPage).manifest, resources |-> Head(toPage).resources]}
     ELSE UNCHANGED <<page, uploads>>
  /\ UNCHANGED keys

\* Mutant: a result counts whatever happened since.
CurrentAlways(upload) == TRUE

Current(upload) ==
  /\ page.generation = upload.expected.generation
  /\ page.run = upload.run
  /\ page.pending = upload.expected

UploadEnds(upload) ==
  /\ ~upload.over
  /\ uploads' = (uploads \ {upload}) \cup {[upload EXCEPT !.over = TRUE]}
  /\ UNCHANGED <<exchanges, mainVars, toMain, toPage, counters>>

\* The pending export stays: this selection cannot be sent again.
UploadSucceeds(upload) ==
  /\ UploadEnds(upload)
  /\ page' = IF Current(upload) /\ page.credential = upload.expected.credential
             THEN [page EXCEPT !.view = upload.manifest, !.uploading = FALSE] ELSE page

UploadFails(upload) ==
  /\ UploadEnds(upload)
  /\ page' = IF Current(upload) THEN [page EXCEPT !.pending = None, !.uploading = FALSE] ELSE page
-----------------------------------------------------------------------------
(* The sandbox: ui.onmessage, and what it awaits.                          *)

Handled(type) ==
  /\ toMain # << >> /\ Head(toMain).type = type
  /\ toMain' = Tail(toMain)
  /\ UNCHANGED <<page, exchanges, uploads, stored, counters>>

HandlePreflight ==
  /\ Handled("selection-preflight")
  /\ \E selection \in Selections \cup {Unsendable} :
       /\ prepared' = IF selection = Unsendable THEN None ELSE selection
       /\ PostToHosted([type |-> "selection-preflight", manifest |-> selection])
  /\ UNCHANGED <<exports, storage>>

ExportFailed(attempt) == [type |-> "selection-error", attempt |-> attempt]

HandleExport ==
  /\ Handled("selection-export")
  /\ IF prepared = None
     THEN PostToHosted(ExportFailed(Head(toMain).attempt)) /\ UNCHANGED exports
     ELSE /\ exports' = exports \cup {[attempt |-> Head(toMain).attempt, of |-> prepared]}
          /\ UNCHANGED toPage
  /\ UNCHANGED <<prepared, storage>>

\* controller.handle: a call of clientStorage, awaited.
HandlePairing ==
  /\ \E type \in {"pairing-credential", "unpair"} : Handled(type)
  /\ storage' = Append(storage, Head(toMain))
  /\ UNCHANGED <<prepared, exports, toPage>>

\* The assets are those of the selection it began with, the manifest that of
\* the preflight prepared by now; without one, reading it raises.
ExportEnds(export) ==
  /\ exports' = exports \ {export}
  /\ \/ /\ prepared # None
        /\ PostToHosted([type |-> "selection-export", attempt |-> export.attempt,
                         manifest |-> prepared, resources |-> export.of])
     \/ PostToHosted(ExportFailed(export.attempt))
  /\ UNCHANGED <<page, exchanges, uploads, prepared, stored, storage, toMain, counters>>

\* Calls of clientStorage end in any order; one that fails is not answered.
StorageEnds(i) ==
  /\ storage' = RemoveAt(storage, i)
  /\ \/ /\ stored' = CASE storage[i].type = "load" -> stored
                       [] storage[i].type = "pairing-credential" -> storage[i].credential
                       [] storage[i].type = "unpair" -> None
        /\ PostToHosted(
             IF storage[i].type = "load" /\ stored # None THEN [type |-> "credential", credential |-> stored]
             ELSE [type |-> "pairing-status",
                   status |-> IF storage[i].type = "pairing-credential" THEN "paired" ELSE "unpaired"])
     \/ UNCHANGED <<stored, toPage>>
  /\ UNCHANGED <<page, exchanges, uploads, prepared, exports, toMain, counters>>
-----------------------------------------------------------------------------
PageStep ==
  \/ Submit \/ ExchangeSucceeds \/ ExchangeFails
  \/ Prepare \/ StartExport \/ Unpair
  \/ ReceiveCredential \/ ReceiveStatus \/ ReceivePreflight \/ ReceiveError \/ ReceiveExport
  \/ \E upload \in uploads : UploadSucceeds(upload) \/ UploadFails(upload)

MainStep ==
  \/ HandlePreflight \/ HandleExport \/ HandlePairing
  \/ \E export \in exports : ExportEnds(export)
  \/ \E i \in DOMAIN storage : StorageEnds(i)

Next == PageStep \/ MainStep

Spec == Init /\ [][Next]_vars
-----------------------------------------------------------------------------
(* Properties.                                                             *)

\* What is uploaded belongs together: the resources are those of the manifest,
\* although the sandbox reads the manifest again after exporting them, and a
\* key the server has seen names one selection only, or it is refused.
UploadsAreWhole ==
  \A u \in uploads :
    /\ u.resources = u.manifest
    /\ \A v \in uploads : u.expected.key = v.expected.key => u.manifest = v.manifest

\* The task shown, and opened in the browser, was made of the selection the
\* page shows, however late the answer to an earlier upload comes.
TaskIsOfShownSelection == page.view # None => page.view = page.shown
=============================================================================
