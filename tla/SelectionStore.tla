--------------------------- MODULE SelectionStore ---------------------------
(***************************************************************************)
(* How a selection travels from the plugin to an immutable version on the  *)
(* server: SelectionUploader.send (upload.ts), which asks four things in   *)
(* turn, and SelectionStore (selection_store.py), which answers.  Commits  *)
(* run in worker threads under SQLite's write lock and publish files while *)
(* they hold it; every request also runs expire_uploads, whose three steps *)
(* hold no lock in between.  Requests and replies get lost, and the server *)
(* may be restarted at any point.                                          *)
(***************************************************************************)
EXTENDS Integers, Sequences, FiniteSets

CONSTANTS
  Keys,        \* idempotency keys: one per selection a plugin prepared
  Manifests,   \* manifests, without the resources they declare
  Manifest,    \* what each key is used to send
  Declared,    \* the resource keys of each manifest in the order declared;
               \* numbers stand for the strings ORDER BY resource_key compares
  UploadTTL,   \* _UPLOAD_TTL
  MaxUploads, MaxClock, MaxFaults,  \* bounds
  None

ASSUME ManifestAssumption == Manifest \in [Keys -> Manifests]
ASSUME DeclaredAssumption ==
  \A m \in Manifests :
    /\ Declared[m] \in Seq(Nat)
    /\ \A i, j \in DOMAIN Declared[m] : Declared[m][i] = Declared[m][j] => i = j
ASSUME LimitsAssumption ==
  UploadTTL \in Nat \ {0} /\ {MaxUploads, MaxClock, MaxFaults} \subseteq Nat

Uploads == 1..MaxUploads
ResourceKeys(m) == {Declared[m][i] : i \in DOMAIN Declared[m]}
AllResources == UNION {ResourceKeys(m) : m \in Manifests}

VARIABLES
  uploads,     \* rows of selection_uploads, or None
  received,    \* resources of each upload whose actual_size is set
  dirs,        \* figma-uploads/<id>: the resource files in it, or None
  selections,  \* rows of selections, in order
  artifacts,   \* published directories under selections/
  writer,      \* the commit that holds the write lock, or None
  cleaning,    \* uploads committed but not yet cleaned up and answered
  sweep,       \* expire_uploads in progress
  client,      \* where send stands for each key; disturbed is history: a loss
               \* ended the send, or its upload expired before it was committed
  clock, opened, faults,
  raced,       \* history: uploads a sweep selected while they were committing
  refusals     \* history: the requests the server refused, by key and code

serverVars == <<uploads, received, dirs, selections, artifacts>>
vars == <<serverVars, writer, cleaning, sweep, client, clock, opened, faults, raced, refusals>>
sweepVars == <<sweep, raced>>

Steps == {"ready", "create", "manifest", "resources", "commit", "waiting", "done"}
Row == [key : Keys, state : {"created", "manifest_received", "resources_pending", "committed"},
        expires : Nat, manifest : Manifests \cup {None}, selection : Nat]
Selection == [upload : Uploads, key : Keys, manifest : Manifests, fingerprint : Seq(Nat)]
Idle == [step |-> "idle", chosen |-> {}, cleaned |-> {}]
Writer == [upload : Uploads, step : {"publish", "finish"}]

ASSUME NoneIsNoValue ==
  None \notin Uploads \cup Row \cup Writer /\ \A files \in SUBSET AllResources : files # None

TypeOK ==
  /\ uploads \in [Uploads -> Row \cup {None}]
  /\ \A u \in Uploads : uploads[u] # None =>
       /\ uploads[u].selection \in 0..Len(selections)
       /\ (uploads[u].state = "committed") <=> (uploads[u].selection > 0)
       /\ \A v \in Uploads \ {u} : uploads[v] # None => uploads[v].key # uploads[u].key
  /\ received \in [Uploads -> SUBSET AllResources]
  /\ dirs \in [Uploads -> (SUBSET AllResources) \cup {None}]
  /\ selections \in Seq(Selection)
  /\ artifacts \subseteq [manifest : Manifests, fingerprint : Seq(Nat), files : SUBSET AllResources]
  /\ writer \in {None} \cup Writer
  /\ cleaning \subseteq Uploads /\ raced \subseteq Uploads
  /\ sweep.step \in {"idle", "clean", "delete"} /\ sweep.cleaned \subseteq sweep.chosen
  /\ client \in [Keys -> [step : Steps, upload : Uploads \cup {None}, next : Nat,
                       again : BOOLEAN, disturbed : BOOLEAN]]
  /\ clock \in 0..MaxClock /\ opened \in 0..MaxUploads /\ faults \in 0..MaxFaults

Init ==
  /\ uploads = [u \in Uploads |-> None]
  /\ received = [u \in Uploads |-> {}]
  /\ dirs = [u \in Uploads |-> None]
  /\ selections = <<>> /\ artifacts = {}
  /\ writer = None /\ cleaning = {} /\ sweep = Idle
  /\ client = [k \in Keys |-> [step |-> "ready", upload |-> None, next |-> 1,
                               again |-> FALSE, disturbed |-> FALSE]]
  /\ clock = 0 /\ opened = 0 /\ faults = 0
  /\ raced = {} /\ refusals = {}
-----------------------------------------------------------------------------
(* The client.  A request that gets no answer, or a 5xx, is sent a second  *)
(* time if it is a create or a commit; otherwise send throws, and the user *)
(* may press the button again with the same key.                           *)

Stop(k) == [client[k] EXCEPT !.step = "ready", !.again = FALSE]

AfterLoss(k) ==
  IF client[k].step \in {"create", "commit", "waiting"} /\ ~client[k].again
  THEN [client[k] EXCEPT !.step = IF @ = "create" THEN "create" ELSE "commit", !.again = TRUE]
  ELSE [Stop(k) EXCEPT !.disturbed = TRUE]

Becomes(k, c) == client' = [client EXCEPT ![k] = c]
Proceed(k, step) == [client[k] EXCEPT !.step = step, !.again = FALSE]

\* The reply arrives, or it is lost.
Replied(k, c) ==
  \/ Becomes(k, c) /\ UNCHANGED faults
  \/ faults < MaxFaults /\ faults' = faults + 1 /\ Becomes(k, AfterLoss(k))

Refused(k, code) ==
  /\ Becomes(k, Stop(k))
  /\ refusals' = refusals \cup {<<k, code>>}
  /\ UNCHANGED <<serverVars, writer, faults, opened>>

Send(k) ==
  /\ client[k].step = "ready"
  /\ Becomes(k, Proceed(k, "create"))
  /\ UNCHANGED <<serverVars, writer, cleaning, sweepVars, clock, opened, faults, refusals>>

RequestLost(k) ==
  /\ client[k].step \in {"create", "manifest", "resources", "commit", "waiting"}
  /\ faults < MaxFaults /\ faults' = faults + 1
  /\ Becomes(k, AfterLoss(k))
  /\ UNCHANGED <<serverVars, writer, cleaning, sweepVars, clock, opened, refusals>>
-----------------------------------------------------------------------------
(* The server, request by request.  What a request reads before its first  *)
(* write needs no lock; commit takes the write lock first.                *)

\* _upload_row: found, and not expired unless committed.
Open(u) ==
  /\ u # None
  /\ uploads[u] # None
  /\ uploads[u].state = "committed" \/ clock < uploads[u].expires

\* Mutant: an expired row no longer counts, though it is still there.
SessionsStillOpen(k) == {u \in Uploads : Open(u) /\ uploads[u].key = k}

Sessions(k) == {u \in Uploads : uploads[u] # None /\ uploads[u].key = k}

\* The existing row is returned whatever its state, expired or not.
CreateUpload(k) ==
  /\ client[k].step = "create"
  /\ \/ \E u \in Sessions(k) :
          /\ Replied(k, [Proceed(k, "manifest") EXCEPT !.upload = u, !.next = 1])
          /\ UNCHANGED <<serverVars, opened>>
     \/ /\ Sessions(k) = {}
        /\ writer = None
        /\ opened < MaxUploads /\ opened' = opened + 1
        /\ uploads' = [uploads EXCEPT ![opened'] =
             [key |-> k, state |-> "created", expires |-> clock + UploadTTL,
              manifest |-> None, selection |-> 0]]
        /\ dirs' = [dirs EXCEPT ![opened'] = {}]
        /\ Replied(k, [Proceed(k, "manifest") EXCEPT !.upload = opened', !.next = 1])
        /\ UNCHANGED <<received, selections, artifacts>>
  /\ UNCHANGED <<writer, cleaning, sweepVars, clock, refusals>>

AfterResource(k, i) ==
  [client[k] EXCEPT !.next = i, !.again = FALSE,
     !.step = IF i > Len(Declared[Manifest[k]]) THEN "commit" ELSE "resources"]

PutManifest(k) ==
  LET u == client[k].upload
  IN  /\ client[k].step = "manifest"
      /\ IF ~Open(u) THEN Refused(k, "selection_not_found")
         ELSE IF uploads[u].state # "created" THEN Refused(k, "selection_upload_state")
         ELSE /\ writer = None
              /\ uploads' = [uploads EXCEPT ![u].state = "manifest_received",
                                            ![u].manifest = Manifest[k]]
              /\ Replied(k, AfterResource(k, 1))
              /\ UNCHANGED <<received, dirs, selections, artifacts, writer, opened, refusals>>
      /\ UNCHANGED <<cleaning, sweepVars, clock>>

FilesIn(u) == IF dirs[u] = None THEN {} ELSE dirs[u]

\* prepare_resource and put_resource_path; the latter checks all over again.
PutResource(k) ==
  LET u == client[k].upload
      r == Declared[Manifest[k]][client[k].next]
  IN  /\ client[k].step = "resources"
      /\ IF ~Open(u) \/ uploads[u].state \notin {"manifest_received", "resources_pending"}
         THEN Refused(k, "selection_not_found")
         ELSE IF r \in received[u] THEN Refused(k, "selection_resource_duplicate")
         ELSE /\ writer = None
              /\ dirs' = [dirs EXCEPT ![u] = FilesIn(u) \cup {r}]
              /\ received' = [received EXCEPT ![u] = @ \cup {r}]
              /\ uploads' = [uploads EXCEPT ![u].state = "resources_pending"]
              /\ Replied(k, AfterResource(k, client[k].next + 1))
              /\ UNCHANGED <<selections, artifacts, writer, opened, refusals>>
      /\ UNCHANGED <<cleaning, sweepVars, clock>>

Committed(u) == uploads[u].state = "committed"

Ready(u) ==
  /\ uploads[u].state \in {"manifest_received", "resources_pending"}
  /\ received[u] = ResourceKeys(uploads[u].manifest)

Commit(k) ==
  LET u == client[k].upload
  IN  /\ client[k].step = "commit" /\ writer = None
      /\ IF ~Open(u) THEN Refused(k, "selection_not_found")
         ELSE IF Committed(u)
         THEN /\ Replied(k, Proceed(k, "done"))
              /\ UNCHANGED <<serverVars, writer, opened, refusals>>
         ELSE IF ~Ready(u) THEN Refused(k, "selection_resources_missing")
         ELSE /\ writer' = [upload |-> u, step |-> "publish"]
              /\ Becomes(k, [client[k] EXCEPT !.step = "waiting"])
              /\ UNCHANGED <<serverVars, opened, faults, refusals>>
      /\ UNCHANGED <<cleaning, sweepVars, clock>>
-----------------------------------------------------------------------------
(* The rest of a commit: _publish, the two rows, and after the transaction *)
(* _cleanup and the reply.                                                 *)

\* ORDER BY resource_key.
InKeyOrder(m) ==
  CHOOSE q \in [1..Len(Declared[m]) -> ResourceKeys(m)] :
    \A i, j \in 1..Len(Declared[m]) : i < j => q[i] < q[j]

Fingerprint(m) == InKeyOrder(m)

\* Mutant: a resource file that is gone is passed over.
CopyableAny(u) == TRUE

Copyable(u) == dirs[u] # None /\ received[u] \subseteq dirs[u]

\* _verify_artifact goes through the resources in the order declared.
Verifies(m) == Declared[m] = Fingerprint(m)

Waiting(u) == {k \in Keys : client[k].step = "waiting" /\ client[k].upload = u}

Publish ==
  /\ writer # None /\ writer.step = "publish"
  /\ LET u == writer.upload
         m == uploads[u].manifest
         old == {a \in artifacts : a.manifest = m /\ a.fingerprint = Fingerprint(m)}
     IN  \/ /\ old = {} /\ ~Copyable(u)
            /\ writer' = None
            /\ client' = [k \in Keys |-> IF k \in Waiting(u) THEN AfterLoss(k) ELSE client[k]]
            /\ UNCHANGED <<artifacts, refusals>>
         \/ /\ old # {} \/ Copyable(u)
            /\ artifacts' = IF old # {} THEN artifacts
                 ELSE artifacts \cup {[manifest |-> m, fingerprint |-> Fingerprint(m), files |-> FilesIn(u)]}
            /\ IF Verifies(m)
               THEN writer' = [writer EXCEPT !.step = "finish"] /\ UNCHANGED <<client, refusals>>
               ELSE /\ writer' = None
                    /\ client' = [k \in Keys |-> IF k \in Waiting(u) THEN Stop(k) ELSE client[k]]
                    /\ refusals' = refusals \cup {<<k, "unverifiable">> : k \in Waiting(u)}
  /\ UNCHANGED <<uploads, received, dirs, selections, cleaning, sweepVars, clock, opened, faults>>

Finish ==
  /\ writer # None /\ writer.step = "finish"
  /\ LET u == writer.upload
     IN  /\ selections' = Append(selections,
              [upload |-> u, key |-> uploads[u].key, manifest |-> uploads[u].manifest,
               fingerprint |-> Fingerprint(uploads[u].manifest)])
         /\ uploads' = [uploads EXCEPT ![u].state = "committed",
                                       ![u].selection = Len(selections')]
         /\ cleaning' = cleaning \cup {u}
  /\ writer' = None
  /\ UNCHANGED <<received, dirs, artifacts, sweepVars, client, clock, opened, faults, refusals>>

\* The directory goes, unless an OSError keeps it; then the reply.
CleanUp(u) ==
  /\ u \in cleaning
  /\ cleaning' = cleaning \ {u}
  /\ dirs' \in {dirs, [dirs EXCEPT ![u] = None]}
  /\ client' = [k \in Keys |-> IF k \in Waiting(u) THEN Proceed(k, "done") ELSE client[k]]
  /\ UNCHANGED <<uploads, received, selections, artifacts, writer, sweepVars, clock,
                 opened, faults, refusals>>

\* A restart: an open transaction is rolled back, files stay as they are.
Crash ==
  /\ faults < MaxFaults /\ faults' = faults + 1
  /\ writer' = None /\ cleaning' = {} /\ sweep' = Idle
  /\ client' = [k \in Keys |-> IF client[k].step = "waiting" THEN AfterLoss(k) ELSE client[k]]
  /\ UNCHANGED <<serverVars, clock, opened, raced, refusals>>
-----------------------------------------------------------------------------
(* expire_uploads: select, remove the directories, delete the rows.        *)

\* Mutant: an upload is swept after its time even if it was committed.
ExpiredCommitted(u) == uploads[u] # None /\ uploads[u].expires <= clock

\* Mutant: every upload that is not committed is swept.
ExpiredUncommitted(u) == uploads[u] # None /\ uploads[u].state # "committed"

Expired(u) ==
  uploads[u] # None /\ uploads[u].state # "committed" /\ uploads[u].expires <= clock

SweepSelects ==
  /\ sweep.step = "idle"
  /\ \E u \in Uploads : Expired(u)
  /\ sweep' = [step |-> "clean", chosen |-> {u \in Uploads : Expired(u)}, cleaned |-> {}]
  /\ raced' = raced \cup {u \in Uploads : Expired(u) /\ writer # None /\ writer.upload = u}
  /\ UNCHANGED <<serverVars, writer, cleaning, client, clock, opened, faults, refusals>>

SweepCleans ==
  /\ sweep.step = "clean"
  /\ \E done \in SUBSET sweep.chosen :
       /\ sweep' = [sweep EXCEPT !.step = "delete", !.cleaned = done]
       /\ dirs' = [u \in Uploads |-> IF u \in done THEN None ELSE dirs[u]]
  /\ UNCHANGED <<uploads, received, selections, artifacts, writer, cleaning, client, clock,
                 opened, faults, raced, refusals>>

\* By upload_id alone: the state is not looked at again.
SweepDeletes ==
  /\ sweep.step = "delete" /\ writer = None
  /\ uploads' = [u \in Uploads |-> IF u \in sweep.cleaned THEN None ELSE uploads[u]]
  /\ received' = [u \in Uploads |-> IF u \in sweep.cleaned THEN {} ELSE received[u]]
  /\ sweep' = Idle
  /\ UNCHANGED <<dirs, selections, artifacts, writer, cleaning, client, clock, opened, faults,
                 raced, refusals>>

Expires(k) ==
  \E u \in Sessions(k) : uploads[u].state # "committed" /\ uploads[u].expires <= clock'

Tick ==
  /\ clock < MaxClock /\ clock' = clock + 1
  /\ client' = [k \in Keys |-> [client[k] EXCEPT !.disturbed = @ \/ Expires(k)]]
  /\ UNCHANGED <<serverVars, writer, cleaning, sweepVars, opened, faults, refusals>>

ServerStep ==
  \/ Publish \/ Finish \/ (\E u \in Uploads : CleanUp(u)) \/ Crash
  \/ SweepSelects \/ SweepCleans \/ SweepDeletes

Next ==
  \/ \E k \in Keys :
       \/ Send(k) \/ RequestLost(k)
       \/ CreateUpload(k) \/ PutManifest(k) \/ PutResource(k) \/ Commit(k)
  \/ ServerStep
  \/ Tick

Spec == Init /\ [][Next]_vars
-----------------------------------------------------------------------------
(* Properties.                                                             *)

\* Every Selection a console can be shown has its artifact, with each
\* declared resource in it, whatever was removed while it was published.
SelectionsAreWhole ==
  \A i \in 1..Len(selections) : \E a \in artifacts :
    /\ a.manifest = selections[i].manifest
    /\ a.fingerprint = selections[i].fingerprint
    /\ a.files = ResourceKeys(selections[i].manifest)

\* "A client-generated idempotency key makes a repeated commit converge on
\* the same Selection" (live-figma-selection-plugin design): lost replies,
\* retries and restarts never make two of one key, as long as no sweep
\* selected the upload in the middle of its commit.
OneSelectionPerKey ==
  \A i, j \in 1..Len(selections) :
    /\ selections[i].key = selections[j].key
    /\ {selections[i].upload, selections[j].upload} \cap raced = {}
    => i = j

\* A send is refused only if its upload expired before it was committed, or
\* if an answer it does not ask for a second time got lost: never because of
\* what other plugins send, because sweeps remove uploads of theirs that
\* expired, or because its own create or commit was retried after a lost
\* reply or a restart (if its resources are in key order).
UndisturbedSendsAreAccepted ==
  \A k \in Keys : ~client[k].disturbed /\ Verifies(Manifest[k]) =>
    \A code \in {"selection_not_found", "selection_upload_state",
      "selection_resource_duplicate", "selection_resources_missing", "unverifiable"} :
        <<k, code>> \notin refusals

\* Commit is to "validate, fingerprint internally, and publish an immutable
\* Selection version" (same design): no complete upload is turned away.
CompleteUploadsArePublished == \A k \in Keys : <<k, "unverifiable">> \notin refusals
=============================================================================
